---------------------------- MODULE Spec2Model ----------------------------
(***************************************************************************)
(* The Energy Tracker API client: the Gateway (EnergyTrackerClient) with   *)
(* its lazily created transport session, its single request operation      *)
(* _make_request and the status / transport-failure classification into   *)
(* the error taxonomy of exceptions.py.                                     *)
(*                                                                         *)
(* The client runs on a cooperative event loop: the code between two       *)
(* awaits that really suspend is one atomic step.  A call to _make_request *)
(* is two steps: Call (obtain the session, issue the request, suspend on   *)
(* the network) and Respond (the response or the transport failure         *)
(* arrives, the body is read and the outcome is classified).  close() is   *)
(* one step or two, depending on whether the session's own close suspends. *)
(***************************************************************************)
EXTENDS Integers, Sequences, FiniteSets, TLC

(***************************************************************************)
(* Bounds of the model.                                                     *)
(***************************************************************************)
NTasks       == 2   \* concurrent callers of one client
MaxSessions  == 3   \* sessions one client creates
MaxCloses    == 2   \* close() / __aexit__ calls on one client
MaxHeaderLen == 2   \* characters of a Retry-After header value
MaxMsgLen    == 2   \* elements of a `message` list in a response body

Tasks == 1..NTasks

(***************************************************************************)
(* Optional values: None is the empty sequence, Some(v) the singleton.      *)
(***************************************************************************)
None    == <<>>
Some(v) == <<v>>

(***************************************************************************)
(* Text.  '; '.join(parts) of Python.                                       *)
(***************************************************************************)
RECURSIVE Join(_, _)
Join(parts, sep) ==
    IF Len(parts) = 0 THEN ""
    ELSE IF Len(parts) = 1 THEN parts[1]
    ELSE parts[1] \o sep \o Join(Tail(parts), sep)

(***************************************************************************)
(* JSON values as response.json() decodes them.  Only the shapes the code  *)
(* distinguishes are kept: str, int, None, bool, list, dict.                *)
(***************************************************************************)
JsonStr(s)   == [t |-> "str",  s |-> s,  n |-> 0]
JsonNum(n)   == [t |-> "int",  s |-> "", n |-> n]
JsonNull     == [t |-> "None", s |-> "", n |-> 0]
JsonBool     == [t |-> "bool", s |-> "", n |-> 1]
JsonList(l)  == [t |-> "list", items |-> l]
JsonDict     == [t |-> "dict", has_message |-> FALSE, message |-> JsonNull]
JsonMsg(m)   == [t |-> "dict", has_message |-> TRUE,  message |-> m]

MessageTexts == {"", "Invalid token", "Field 'value' is required"}
MessageItems == {JsonStr(s) : s \in MessageTexts \ {"Invalid token"}}
                    \cup {JsonNum(123), JsonNull}

SeqsUpTo(S, n) == UNION {[1..k -> S] : k \in 0..n}

\* Every value the `message` field of a JSON object body takes.
MessageValues ==
    {JsonStr(s) : s \in MessageTexts}
        \cup {JsonList(l) : l \in SeqsUpTo(MessageItems, MaxMsgLen)}
        \cup {JsonNum(7), JsonNull, JsonBool, JsonDict}

\* What `await response.json()` yields, or "unparseable" when it raises
\* aiohttp.ContentTypeError / ValueError (a CSV export, an HTML error page).
Unparseable == [t |-> "unparseable"]
Bodies ==
    {Unparseable, JsonDict}
        \cup {JsonMsg(m) : m \in MessageValues}
        \cup {JsonList(<<>>), JsonStr("text"), JsonNum(7), JsonNull}

(***************************************************************************)
(* Python's str(m) on an element of the `message` list.                     *)
(***************************************************************************)
Str(m) ==
    CASE m.t = "str"  -> m.s
      [] m.t = "int"  -> ToString(m.n)
      [] m.t = "None" -> "None"
      [] m.t = "bool" -> "True"
      [] OTHER        -> "{}"

(***************************************************************************)
(* _extract_api_message(data): data.get("message"), then by type.  A data  *)
(* that is no dict has no .get: the AttributeError is modelled by the       *)
(* caller (HasGet).                                                         *)
(***************************************************************************)
HasGet(data) == data.t = "dict"

_extract_api_message_str_items(data) ==
    LET message == IF data.has_message THEN data.message ELSE JsonNull IN
    IF message.t = "list"
        THEN LET kept == SelectSeq(message.items, LAMBDA m : m.t = "str")
             IN  [i \in 1..Len(kept) |-> kept[i].s]
    ELSE IF message.t = "str"
        THEN <<message.s>>
        ELSE <<>>

_extract_api_message(data) ==
    LET message == IF data.has_message THEN data.message ELSE JsonNull IN
    IF message.t = "list"
        THEN [i \in 1..Len(message.items) |-> Str(message.items[i])]
    ELSE IF message.t = "str"
        THEN <<message.s>>
        ELSE <<>>

(***************************************************************************)
(* The Retry-After header.  Its value is a text, kept as the sequence of   *)
(* its characters.  "sup2" stands for the character U+00B2 (superscript    *)
(* two): str.isdigit() is true of it, int() rejects it.                     *)
(***************************************************************************)
DecimalChars == {"0", "7"}
DigitChars   == DecimalChars \cup {"sup2"}
HeaderChars  == DigitChars \cup {"-"}
HeaderTexts  == SeqsUpTo(HeaderChars, MaxHeaderLen)
\* response.headers.get("Retry-After"): None when the header is missing.
RetryAfterHeaders == {None} \cup {Some(h) : h \in HeaderTexts}

\* str.isdigit(): at least one character, and every character a digit.
isdigit(h) == Len(h) > 0 /\ \A i \in 1..Len(h) : h[i] \in DigitChars

\* Whether int(h) raises ValueError, for a text of digits.
IntRaises(h) == \E i \in 1..Len(h) : h[i] \notin DecimalChars

DigitValue(c) == IF c = "7" THEN 7 ELSE 0

RECURSIVE int(_)
int(h) ==
    IF Len(h) = 0 THEN 0
    ELSE 10 * int(SubSeq(h, 1, Len(h) - 1)) + DigitValue(h[Len(h)])

(***************************************************************************)
(* client.py 109-112: retry_seconds, an optional int; RetryRaises is the   *)
(* case where the int() of that expression raises.                          *)
(***************************************************************************)
RetryRaises(retry_after) ==
    retry_after # None /\ Len(retry_after[1]) > 0
        /\ isdigit(retry_after[1]) /\ IntRaises(retry_after[1])

retry_seconds(retry_after) ==
    IF retry_after # None /\ Len(retry_after[1]) > 0 /\ isdigit(retry_after[1])
        THEN Some(int(retry_after[1]))
        ELSE None

(***************************************************************************)
(* The error taxonomy of exceptions.py.  An outcome of _make_request is a  *)
(* raised error (kind = the class raised) or a returned value.              *)
(***************************************************************************)
SpecificKinds ==
    {"ValidationError", "AuthenticationError", "ForbiddenError",
     "ResourceNotFoundError", "ConflictError", "RateLimitError",
     "NetworkError", "TimeoutError"}
BaseKind == "EnergyTrackerAPIError"
\* isinstance(e, EnergyTrackerAPIError)
TaxonomyKinds == SpecificKinds \cup {BaseKind}

NoValue == [t |-> "NoValue"]

EnergyTrackerAPIError_first_only(cls, message, api_message) ==
    [kind |-> cls, message |-> message,
     api_message |-> IF api_message # None /\ Len(api_message[1]) > 0
                         THEN <<api_message[1][1]>> ELSE <<>>,
     retry_after |-> None, value |-> NoValue]

\* EnergyTrackerAPIError.__init__(message, api_message = None)
EnergyTrackerAPIError(cls, message, api_message) ==
    [kind |-> cls, message |-> message,
     api_message |-> IF api_message # None THEN api_message[1] ELSE <<>>,
     retry_after |-> None, value |-> NoValue]

\* RateLimitError.__init__(message, api_message = None, retry_after = None)
RateLimitError(message, api_message, retry_after) ==
    [EnergyTrackerAPIError("RateLimitError", message, api_message)
        EXCEPT !.retry_after = retry_after]

\* An exception that is no EnergyTrackerAPIError leaves _make_request.
Escapes(cls) ==
    [kind |-> cls, message |-> "", api_message |-> <<>>,
     retry_after |-> None, value |-> NoValue]

\* `return response`: the aiohttp.ClientResponse object itself.
ClientResponse(resp) == [t |-> "ClientResponse", status |-> resp.status]
Return(v) ==
    [kind |-> "return", message |-> "", api_message |-> <<>>,
     retry_after |-> None, value |-> v]

(***************************************************************************)
(* The inputs of one exchange: a received response (status, decoded body,  *)
(* Retry-After header) or a transport failure (the exception classes the   *)
(* raised exception is an instance of: aiohttp.ClientError,                 *)
(* asyncio.TimeoutError, or both, as aiohttp.ServerTimeoutError is).        *)
(***************************************************************************)
Statuses ==
    {200, 204, 302, 399, 400, 401, 403, 404, 409, 418, 429, 499,
     500, 503, 599, 600}

Responses ==
    [t : {"response"}, status : Statuses, body : Bodies,
     retry_after : RetryAfterHeaders]

FailureClasses == {{"ClientError"}, {"TimeoutError"}, {"ClientError", "TimeoutError"}}
Failures == [t : {"failure"}, classes : FailureClasses, text : {"Connection error"}]

Results == Responses \cup Failures

(***************************************************************************)
(* client.py 91-95: the message of the ValidationError.                     *)
(***************************************************************************)
ValidationMessage_comma(api_message) ==
    IF Len(api_message) > 0
        THEN "Bad Request" \o " (" \o Join(api_message, ", ") \o ")"
        ELSE "Bad Request"

ValidationMessage(api_message) ==
    IF Len(api_message) > 0
        THEN "Bad Request" \o " (" \o Join(api_message, "; ") \o ")"
        ELSE "Bad Request"

(***************************************************************************)
(* client.py 113-115: the message of the RateLimitError.  `if               *)
(* retry_seconds:` is Python truthiness: None and 0 are both false.         *)
(***************************************************************************)
Truthy(opt) == opt # None /\ opt[1] # 0

RateLimitMessage(retry) ==
    IF Truthy(retry)
        THEN "Too Many Requests: Rate limit exceeded"
                 \o " - Retry after " \o ToString(retry[1]) \o " seconds"
        ELSE "Too Many Requests: Rate limit exceeded"

(***************************************************************************)
(* client.py 119-126: the two catch-all branches, tried after every        *)
(* dedicated status.                                                        *)
(***************************************************************************)
CatchAllMessage_swapped(status) ==
    IF status >= 500 THEN "HTTP error: " \o ToString(status)
    ELSE "Server error: " \o ToString(status)

CatchAllMessage(status) ==
    IF status >= 500 THEN "Server error: " \o ToString(status)
    ELSE "HTTP error: " \o ToString(status)

(***************************************************************************)
(* client.py 84-128: the body of the `async with`, for a received          *)
(* response.                                                                *)
(***************************************************************************)
DataOf_none(resp) == IF resp.body = Unparseable THEN JsonNull ELSE resp.body

\* client.py 84-87: `data`, the decoded body, or {} when decoding raised.
DataOf(resp) == IF resp.body = Unparseable THEN JsonDict ELSE resp.body

Classify(resp) ==
    LET data == DataOf(resp)
        api_message == _extract_api_message(data)
        status == resp.status
    IN  IF ~HasGet(data) THEN Escapes("AttributeError")
        ELSE IF status = 400 THEN
            EnergyTrackerAPIError("ValidationError",
                ValidationMessage(api_message), Some(api_message))
        ELSE IF status = 401 THEN
            EnergyTrackerAPIError("AuthenticationError",
                "Unauthorized: Check your access token", Some(api_message))
        ELSE IF status = 403 THEN
            EnergyTrackerAPIError("ForbiddenError",
                "Forbidden: Insufficient permissions", Some(api_message))
        ELSE IF status = 404 THEN
            EnergyTrackerAPIError("ResourceNotFoundError", "Not Found",
                Some(api_message))
        ELSE IF status = 409 THEN
            EnergyTrackerAPIError("ConflictError", "Conflict", Some(api_message))
        ELSE IF status = 429 THEN
            IF RetryRaises(resp.retry_after) THEN Escapes("ValueError")
            ELSE RateLimitError(RateLimitMessage(retry_seconds(resp.retry_after)),
                     Some(api_message), retry_seconds(resp.retry_after))
        ELSE IF status >= 400 THEN
            EnergyTrackerAPIError(BaseKind, CatchAllMessage(status), Some(api_message))
        ELSE Return(ClientResponse(resp))

(***************************************************************************)
(* client.py 130-133: the except clauses, tried in their written order.    *)
(* An exception that matches neither clause propagates as it is.            *)
(***************************************************************************)
OnTransportFailure_except_all(exc, timeout) ==
    IF "TimeoutError" \in exc.classes /\ "ClientError" \notin exc.classes THEN
        EnergyTrackerAPIError("TimeoutError",
            "Request timeout after " \o ToString(timeout) \o " seconds", None)
    ELSE EnergyTrackerAPIError("NetworkError", "Request failed: " \o exc.text, None)

OnTransportFailure(exc, timeout) ==
    IF "ClientError" \in exc.classes THEN
        EnergyTrackerAPIError("NetworkError", "Request failed: " \o exc.text, None)
    ELSE IF "TimeoutError" \in exc.classes THEN
        EnergyTrackerAPIError("TimeoutError",
            "Request timeout after " \o ToString(timeout) \o " seconds", None)
    ELSE Escapes(CHOOSE cls \in exc.classes : TRUE)

\* asyncio.CancelledError, raised at the await a cancelled task is suspended
\* on: a BaseException, neither an aiohttp.ClientError nor an
\* asyncio.TimeoutError (nor the ValueError of client.py 86).
CancelledError == [t |-> "failure", classes |-> {"CancelledError"}, text |-> ""]

\* The outcome of one _make_request call whose exchange ended with `result`.
Outcome(result, timeout) ==
    IF result.t = "failure" THEN OnTransportFailure(result, timeout)
    ELSE Classify(result)

(***************************************************************************)
(* datetime values and datetime.isoformat(timespec="milliseconds"), the    *)
(* one conversion every model and resource applies to a timestamp.  A      *)
(* datetime is naive (utcoffset None) or aware (utcoffset in minutes); the *)
(* date is the one the tests use.                                           *)
(***************************************************************************)
Hours        == {8, 10}
Microseconds == {0, 999, 123000, 123456, 999999}
UtcOffsets   == {None, Some(0), Some(120), Some(0 - 330)}
Datetimes    == [hour : Hours, minute : {30}, second : {45},
                 microsecond : Microseconds, utcoffset : UtcOffsets]

Pad2(n) == IF n < 10 THEN "0" \o ToString(n) ELSE ToString(n)
Pad3(n) == IF n < 10 THEN "00" \o ToString(n)
           ELSE IF n < 100 THEN "0" \o ToString(n) ELSE ToString(n)

\* The "+HH:MM" of an aware datetime; nothing for a naive one.
format_offset(utcoffset) ==
    IF utcoffset = None THEN ""
    ELSE LET minutes == utcoffset[1]
             a == IF minutes < 0 THEN 0 - minutes ELSE minutes
         IN  (IF minutes < 0 THEN "-" ELSE "+")
                 \o Pad2(a \div 60) \o ":" \o Pad2(a % 60)

\* ts.isoformat(timespec="milliseconds"): the datetime's own wall-clock
\* fields, the microseconds truncated to three digits, then its own offset.
isoformat(ts) ==
    "2024-01-15T" \o Pad2(ts.hour) \o ":" \o Pad2(ts.minute) \o ":"
        \o Pad2(ts.second) \o "." \o Pad3(ts.microsecond \div 1000)
        \o format_offset(ts.utcoffset)

JsonChars(cs) == [t |-> "str", chars |-> cs]
JsonFloat(x)  == [t |-> "float", x |-> x]
JsonBoolOf(b) == [t |-> "bool", s |-> "", n |-> IF b THEN 1 ELSE 0]

\* A dict entry written only when the optional is not None.
IfPresent(opt, key, value) == IF opt # None THEN key :> value ELSE <<>>

\* TimestampDto._to_dict (models/common.py 19-20)
TimestampDto_to_dict(d) == "timestamp" :> JsonStr(isoformat(d.timestamp))

(***************************************************************************)
(* decimal.Decimal.  A finite Decimal is a sign, a coefficient (its digits, *)
(* without leading zeros, "0" for zero) and an exponent; texts are kept as *)
(* the sequence of their characters.                                        *)
(***************************************************************************)
MaxDigits == 2   \* digits of a coefficient
MinExp    == 8   \* exponents run from -MinExp
MaxExp    == 2   \* ... to MaxExp

Digits == <<"0", "1", "2", "3", "4", "5", "6", "7", "8", "9">>
DigitSet == {Digits[i] : i \in 1..10}
DigitOf(c) == (CHOOSE i \in 1..10 : Digits[i] = c) - 1

Zeros(n) == [i \in 1..n |-> "0"]
AllDigits(cs) == \A i \in 1..Len(cs) : cs[i] \in DigitSet

\* The characters of str(n), n >= 0.
RECURSIVE NatChars(_)
NatChars(n) == IF n < 10 THEN <<Digits[n + 1]>>
               ELSE NatChars(n \div 10) \o <<Digits[(n % 10) + 1]>>

\* int(cs) of a text of decimal digits.
RECURSIVE NatOf(_)
NatOf(cs) == IF Len(cs) = 0 THEN 0
             ELSE 10 * NatOf(SubSeq(cs, 1, Len(cs) - 1)) + DigitOf(cs[Len(cs)])

\* str(int(cs)): the digits without their leading zeros.
RECURSIVE StripLeadingZeros(_)
StripLeadingZeros(cs) ==
    IF Len(cs) > 1 /\ Head(cs) = "0" THEN StripLeadingZeros(Tail(cs)) ELSE cs

\* The position of the first character of cs that is in C, 0 when none is.
IndexOf(cs, C) ==
    IF \E i \in 1..Len(cs) : cs[i] \in C
        THEN CHOOSE i \in 1..Len(cs) :
                 cs[i] \in C /\ \A j \in 1..(i - 1) : cs[j] \notin C
        ELSE 0

DecimalOf(sign, coefficient, exp) == [sign |-> sign, int |-> coefficient, exp |-> exp]
InvalidOperation == [sign |-> 0, int |-> <<>>, exp |-> 0]

\* Decimal.__str__: scientific notation when the exponent is positive or
\* more than six zeros would follow the point.
Decimal___str__(d) ==
    LET leftdigits == d.exp + Len(d.int)
        dotplace   == IF d.exp <= 0 /\ leftdigits > 0 - 6 THEN leftdigits ELSE 1
        intpart    == IF dotplace <= 0 THEN <<"0">>
                      ELSE IF dotplace >= Len(d.int)
                          THEN d.int \o Zeros(dotplace - Len(d.int))
                          ELSE SubSeq(d.int, 1, dotplace)
        fracpart   == IF dotplace <= 0 THEN <<".">> \o Zeros(0 - dotplace) \o d.int
                      ELSE IF dotplace >= Len(d.int) THEN <<>>
                          ELSE <<".">> \o SubSeq(d.int, dotplace + 1, Len(d.int))
        e          == leftdigits - dotplace
        exp        == IF e = 0 THEN <<>>
                      ELSE <<"E", IF e < 0 THEN "-" ELSE "+">>
                               \o NatChars(IF e < 0 THEN 0 - e ELSE e)
    IN  (IF d.sign = 1 THEN <<"-">> ELSE <<>>) \o intpart \o fracpart \o exp

Decimal_digits_as_integer(cs) ==
    LET body == IF Len(cs) > 0 /\ cs[1] \in {"-", "+"} THEN Tail(cs) ELSE cs
        kept == SelectSeq(body, LAMBDA c : c \in DigitSet)
    IN  IF Len(kept) = 0 THEN InvalidOperation
        ELSE DecimalOf(IF Len(cs) > 0 /\ cs[1] = "-" THEN 1 ELSE 0,
                       StripLeadingZeros(kept), 0)

\* Decimal(text): [sign] digits [. digits] [E [sign] digits], at least one
\* digit in the mantissa; anything else raises InvalidOperation.
Decimal(cs) ==
    LET signed   == Len(cs) > 0 /\ cs[1] \in {"-", "+"}
        body     == IF signed THEN Tail(cs) ELSE cs
        e        == IndexOf(body, {"E", "e"})
        mantissa == IF e = 0 THEN body ELSE SubSeq(body, 1, e - 1)
        exptext  == IF e = 0 THEN <<>> ELSE SubSeq(body, e + 1, Len(body))
        expsign  == Len(exptext) > 0 /\ exptext[1] \in {"-", "+"}
        expdigs  == IF expsign THEN Tail(exptext) ELSE exptext
        dot      == IndexOf(mantissa, {"."})
        intpart  == IF dot = 0 THEN mantissa ELSE SubSeq(mantissa, 1, dot - 1)
        fracpart == IF dot = 0 THEN <<>> ELSE SubSeq(mantissa, dot + 1, Len(mantissa))
        valid    == /\ AllDigits(intpart) /\ AllDigits(fracpart)
                    /\ Len(intpart) + Len(fracpart) > 0
                    /\ (e # 0 => Len(expdigs) > 0 /\ AllDigits(expdigs))
        expvalue == IF e = 0 THEN 0
                    ELSE IF exptext[1] = "-" THEN 0 - NatOf(expdigs) ELSE NatOf(expdigs)
    IN  IF ~valid THEN InvalidOperation
        ELSE DecimalOf(IF signed /\ cs[1] = "-" THEN 1 ELSE 0,
                       StripLeadingZeros(intpart \o fracpart),
                       expvalue - Len(fracpart))

CoefficientDigits == {"0", "1", "5"}
Coefficients ==
    {cs \in SeqsUpTo(CoefficientDigits, MaxDigits) :
        Len(cs) >= 1 /\ (Len(cs) > 1 => cs[1] # "0")}
\* Decimal("12345.67890") of the tests
PreciseDecimal == DecimalOf(0, <<"1", "2", "3", "4", "5", "6", "7", "8", "9", "0">>, 0 - 5)
Decimals ==
    {DecimalOf(sg, c, e) : sg \in {0, 1}, c \in Coefficients, e \in (0 - MinExp)..MaxExp}
        \cup {PreciseDecimal}
SampleDecimals == {DecimalOf(0, <<"0">>, 0), PreciseDecimal}

SampleDatetimes ==
    {[hour |-> 10, minute |-> 30, second |-> 45, microsecond |-> 123000, utcoffset |-> None],
     [hour |-> 10, minute |-> 30, second |-> 45, microsecond |-> 123456, utcoffset |-> Some(0)],
     [hour |-> 8, minute |-> 30, second |-> 45, microsecond |-> 999999, utcoffset |-> Some(120)]}

Opt(S) == {None} \cup {Some(x) : x \in S}

(***************************************************************************)
(* The request models (models/) and their _to_dict.  An encoded dict is a  *)
(* function from its keys to JSON values.                                   *)
(***************************************************************************)
Notes  == {"Manual reading"}
Titles == {"Temperature"}
Units  == {"C", ""}
Floats == {"21.5", "0.0"}

CreateMeterReadingDtos ==
    [t : {"CreateMeterReadingDto"}, value : Decimals,
     timestamp : {None}, note : {None}]
        \cup [t : {"CreateMeterReadingDto"}, value : SampleDecimals,
              timestamp : Opt(Datetimes), note : Opt(Notes)]
CreateEnvironmentRecordDtos ==
    [t : {"CreateEnvironmentRecordDto"}, title : Titles, unit : Opt(Units)]
CreateEnvironmentEntryDtos ==
    [t : {"CreateEnvironmentEntryDto"}, value : Floats, timestamp : Opt(Datetimes)]
TimestampDtos == [t : {"TimestampDto"}, timestamp : Datetimes]

CreateMeterReadingDto_to_dict_nulls(d) ==
    [value |-> JsonChars(Decimal___str__(d.value)),
     timestamp |-> IF d.timestamp # None
                       THEN JsonStr(isoformat(d.timestamp[1])) ELSE JsonNull,
     note |-> IF d.note # None THEN JsonStr(d.note[1]) ELSE JsonNull]

\* CreateMeterReadingDto._to_dict (models/meter_readings.py 89-100)
CreateMeterReadingDto_to_dict(d) ==
    ("value" :> JsonChars(Decimal___str__(d.value)))
        @@ IfPresent(d.timestamp, "timestamp", JsonStr(isoformat(d.timestamp[1])))
        @@ IfPresent(d.note, "note", JsonStr(d.note[1]))

\* CreateEnvironmentRecordDto._to_dict (models/environments.py 65-71)
CreateEnvironmentRecordDto_to_dict(d) ==
    ("title" :> JsonStr(d.title)) @@ IfPresent(d.unit, "unit", JsonStr(d.unit[1]))

\* CreateEnvironmentEntryDto._to_dict (models/environments.py 86-92)
CreateEnvironmentEntryDto_to_dict(d) ==
    ("value" :> JsonFloat(d.value))
        @@ IfPresent(d.timestamp, "timestamp", JsonStr(isoformat(d.timestamp[1])))

\* The StrEnum classes of models/meter_readings.py 16-40: each member, by
\* its name, with the str it is and is written as.
CsvDelimiter == [COMMA |-> "comma", SEMICOLON |-> "semicolon", TAB |-> "tab"]
DateFormat   == [ISO |-> "iso", DATE_TIME |-> "date_time", UNIX |-> "unix",
                 UNIX_MS |-> "unix_ms"]
ExportColumn == [DATE |-> "date", VALUE |-> "value", NOTE |-> "note",
                 METER_ID |-> "meter_id", METER_NUMBER |-> "meter_number"]

\* ExportMeterReadingsDto(columns, include_header=True,
\* delimiter=CsvDelimiter.COMMA, date_format=DateFormat.ISO): an argument
\* that is None was not given.
ExportMeterReadingsDto(columns, include_header, delimiter, date_format) ==
    [t |-> "ExportMeterReadingsDto", columns |-> columns,
     include_header |-> IF include_header = None THEN TRUE ELSE include_header[1],
     delimiter |-> IF delimiter = None THEN "COMMA" ELSE delimiter[1],
     date_format |-> IF date_format = None THEN "ISO" ELSE date_format[1]]

MaxColumns == 2   \* columns of an export drawn in every order
AllColumns == <<"DATE", "VALUE", "NOTE", "METER_ID", "METER_NUMBER">>
ColumnLists == SeqsUpTo(DOMAIN ExportColumn, MaxColumns) \cup {AllColumns}
ExportMeterReadingsDtos ==
    {ExportMeterReadingsDto(cols, None, None, None) : cols \in ColumnLists}
        \cup {ExportMeterReadingsDto(<<"DATE", "VALUE", "NOTE">>, h, dl, df) :
                  h \in Opt(BOOLEAN), dl \in Opt(DOMAIN CsvDelimiter),
                  df \in Opt(DOMAIN DateFormat)}

ExportMeterReadingsDto_to_dict_names(d) ==
    [columns |-> JsonList([i \in 1..Len(d.columns) |-> JsonStr(d.columns[i])]),
     includeHeader |-> JsonBoolOf(d.include_header),
     delimiter |-> JsonStr(d.delimiter),
     dateFormat |-> JsonStr(d.date_format)]

\* ExportMeterReadingsDto._to_dict (models/meter_readings.py 119-125)
ExportMeterReadingsDto_to_dict(d) ==
    [columns |-> JsonList([i \in 1..Len(d.columns) |->
                              JsonStr(ExportColumn[d.columns[i]])]),
     includeHeader |-> JsonBoolOf(d.include_header),
     delimiter |-> JsonStr(CsvDelimiter[d.delimiter]),
     dateFormat |-> JsonStr(DateFormat[d.date_format])]

_to_dict(d) ==
    CASE d.t = "CreateMeterReadingDto"      -> CreateMeterReadingDto_to_dict(d)
      [] d.t = "CreateEnvironmentRecordDto" -> CreateEnvironmentRecordDto_to_dict(d)
      [] d.t = "CreateEnvironmentEntryDto"  -> CreateEnvironmentEntryDto_to_dict(d)
      [] d.t = "TimestampDto"               -> TimestampDto_to_dict(d)
      [] d.t = "ExportMeterReadingsDto"     -> ExportMeterReadingsDto_to_dict(d)

(***************************************************************************)
(* MeterReadingDto._from_dict (models/meter_readings.py 63-72).  A wire    *)
(* dict is a function from its keys to JSON values.                         *)
(***************************************************************************)
\* datetime.fromisoformat(text): the datetime whose text this is; a final
\* "Z" reads as UTC.  ValueError for any other text.
ParsedDatetimes == {ts \in Datetimes : ts.microsecond % 1000 = 0}
InvalidDatetime == [hour |-> 0, minute |-> 0, second |-> 0, microsecond |-> 0,
                    utcoffset |-> Some(1440)]
fromisoformat(text) ==
    IF \E ts \in ParsedDatetimes : isoformat(ts) = text
        THEN CHOOSE ts \in ParsedDatetimes : isoformat(ts) = text
    ELSE IF \E ts \in ParsedDatetimes : ts.utcoffset = None /\ isoformat(ts) \o "Z" = text
        THEN [(CHOOSE ts \in ParsedDatetimes :
                   ts.utcoffset = None /\ isoformat(ts) \o "Z" = text)
                 EXCEPT !.utcoffset = Some(0)]
    ELSE InvalidDatetime

\* data.get(key): the str under key, None when the key is absent or null.
GetStr(data, key) ==
    IF key \in DOMAIN data /\ data[key].t = "str" THEN Some(data[key].s) ELSE None

MeterReadingKeys == {"timestamp", "value", "rolloverOffset", "meterId"}

MeterReadingDto_from_dict(data) ==
    IF ~(MeterReadingKeys \subseteq DOMAIN data) THEN Escapes("KeyError")
    ELSE IF fromisoformat(data["timestamp"].s) = InvalidDatetime THEN Escapes("ValueError")
    ELSE IF Decimal(data["value"].chars) = InvalidOperation THEN Escapes("InvalidOperation")
    ELSE Return([t |-> "MeterReadingDto",
                 timestamp |-> fromisoformat(data["timestamp"].s),
                 value |-> Decimal(data["value"].chars),
                 rollover_offset |-> data["rolloverOffset"],
                 meter_id |-> data["meterId"].s,
                 note |-> GetStr(data, "note"),
                 meter_number |-> GetStr(data, "meterNumber")])

GetTruthy_if_present(data, key) == key \in DOMAIN data

\* `if data.get("lastUpdatedAt"):` (models/devices.py 26): the key is present
\* and its value is neither null nor the empty str.
GetTruthy(data, key) ==
    key \in DOMAIN data /\ data[key].t = "str" /\ data[key].s # ""

\* DeviceSummaryDto._from_dict (models/devices.py 23-34)
DeviceSummaryDto_from_dict(data) ==
    IF GetTruthy(data, "lastUpdatedAt")
           /\ fromisoformat(data["lastUpdatedAt"].s) = InvalidDatetime
        THEN Escapes("ValueError")
    ELSE IF ~({"id", "name", "folderPath"} \subseteq DOMAIN data) THEN Escapes("KeyError")
    ELSE Return([t |-> "DeviceSummaryDto",
                 id |-> data["id"].s, name |-> data["name"].s,
                 folder_path |-> data["folderPath"].s,
                 last_updated_at |->
                     IF GetTruthy(data, "lastUpdatedAt")
                         THEN Some(fromisoformat(data["lastUpdatedAt"].s))
                         ELSE None])

\* EnvironmentEntryDto._from_dict (models/environments.py 19-24)
EnvironmentEntryDto_from_dict(data) ==
    IF "timestamp" \notin DOMAIN data THEN Escapes("KeyError")
    ELSE IF fromisoformat(data["timestamp"].s) = InvalidDatetime THEN Escapes("ValueError")
    ELSE IF "value" \notin DOMAIN data THEN Escapes("KeyError")
    ELSE Return([t |-> "EnvironmentEntryDto",
                 timestamp |-> fromisoformat(data["timestamp"].s),
                 value |-> data["value"].x])

\* EnvironmentRecordDto._from_dict (models/environments.py 43-50): the
\* arguments are evaluated in their written order; entries that are null
\* cannot be iterated.
EnvironmentRecordDto_from_dict(data) ==
    LET entries == IF "entries" \in DOMAIN data THEN data["entries"] ELSE JsonList(<<>>)
        made    == [i \in 1..Len(entries.items) |->
                       EnvironmentEntryDto_from_dict(entries.items[i])]
    IN  IF ~({"id", "title"} \subseteq DOMAIN data) THEN Escapes("KeyError")
        ELSE IF entries.t # "list" THEN Escapes("TypeError")
        ELSE IF \E i \in 1..Len(made) : made[i].kind # "return"
            THEN made[CHOOSE i \in 1..Len(made) :
                          /\ made[i].kind # "return"
                          /\ \A j \in 1..(i - 1) : made[j].kind = "return"]
        ELSE Return([t |-> "EnvironmentRecordDto",
                     id |-> data["id"].s, title |-> data["title"].s,
                     unit |-> GetStr(data, "unit"),
                     entries |-> [i \in 1..Len(made) |-> made[i].value]])

\* cls._from_dict(data), for the model class a resource decodes into.
_from_dict(cls, data) ==
    CASE cls = "MeterReadingDto"      -> MeterReadingDto_from_dict(data)
      [] cls = "DeviceSummaryDto"     -> DeviceSummaryDto_from_dict(data)
      [] cls = "EnvironmentRecordDto" -> EnvironmentRecordDto_from_dict(data)

\* Wire texts of a meter value, each with the number it denotes times 10^5.
WireScale == 5
WireValues ==
    {[chars |-> <<"1", "2", "3", "4", "5", ".", "6", "7", "8", "9", "0">>, scaled |-> 1234567890],
     [chars |-> <<"0">>, scaled |-> 0],
     [chars |-> <<"9", "9", "9", ".", "9", "9">>, scaled |-> 99999000],
     [chars |-> <<"-", "0", ".", "5", "0">>, scaled |-> 0 - 50000],
     [chars |-> <<"0", "0", "7", ".", "5">>, scaled |-> 750000],
     [chars |-> <<"1", "E", "+", "3">>, scaled |-> 100000000],
     [chars |-> <<"2", "5", "e", "-", "4">>, scaled |-> 250]}
WireTimestamps == {"2024-01-15T10:30:45.123Z", "2024-01-15T08:30:45.000+02:00"}

\* The wire dict of a meter reading whose value text is cs.
WireReading(cs, timestamp, note) ==
    [timestamp |-> JsonStr(timestamp), value |-> JsonChars(cs),
     rolloverOffset |-> JsonNum(0), meterId |-> JsonStr("meter-abc")]
        @@ IfPresent(note, "note", JsonStr(note[1]))

WireReadings ==
    {WireReading(v.chars, "2024-01-15T10:30:45.123Z", None) : v \in WireValues}
        \cup {WireReading(<<"0">>, ts, note) :
                  ts \in WireTimestamps, note \in Opt(Notes)}

\* A wire key that is missing, null or set.
WireField(key, S) == {<<>>, key :> JsonNull} \cup {key :> v : v \in S}

\* Wire dicts of a device, with and without each required key.
WireDevices ==
    {[id |-> JsonStr("device-123"), name |-> JsonStr("Gas"),
      folderPath |-> JsonStr("/basement/gas")] @@ updated :
         updated \in WireField("lastUpdatedAt",
                         {JsonStr(ts) : ts \in WireTimestamps \cup {"", "yesterday"}})}
        \cup {[id |-> JsonStr("device-123"), folderPath |-> JsonStr("/basement/gas")]}

MaxEntries == 2   \* entries of an environment record on the wire
WireEntries ==
    {[timestamp |-> JsonStr(ts), value |-> JsonFloat(x)] :
         ts \in WireTimestamps, x \in Floats}
        \cup {[value |-> JsonFloat("21.5")]}
WireEnvironments ==
    {[id |-> JsonStr("env-1"), title |-> JsonStr("Temperature")] @@ unit @@ entries :
         unit \in WireField("unit", {JsonStr("C")}),
         entries \in WireField("entries",
                         {JsonList(l) : l \in SeqsUpTo(WireEntries, MaxEntries)})}
        \cup {[id |-> JsonStr("env-1")]}

(***************************************************************************)
(* The resource operations (resources/): their arguments, the request each *)
(* passes to _make_request, and what each makes of _make_request's outcome. *)
(***************************************************************************)
DeviceIds      == {"device-123"}
EnvironmentIds == {"env-1"}
MeterIds       == {"meter-abc"}
Names          == {"Gas", ""}
FolderPaths    == {"/basement/gas"}
SortDirections == {"asc", "desc"}
DESC           == "desc"

ExportConfigs ==
    {ExportMeterReadingsDto(<<"DATE", "VALUE">>, Some(h), None, None) : h \in BOOLEAN}
SampleCreates ==
    [t : {"CreateMeterReadingDto"}, value : SampleDecimals,
     timestamp : Opt(SampleDatetimes), note : Opt(Notes)]
SampleEntries ==
    [t : {"CreateEnvironmentEntryDto"}, value : Floats, timestamp : Opt(SampleDatetimes)]

DeviceListFns == {"DeviceResource.list_standard", "DeviceResource.list_virtual"}
ReadingQueryFns == {"MeterReadingResource.list", "MeterReadingResource.export"}

Ops ==
    [fn : DeviceListFns, name : Opt(Names), folder_path : Opt(FolderPaths),
     updated_after : Opt(SampleDatetimes), updated_before : Opt(SampleDatetimes)]
    \cup [fn : {"MeterReadingResource.list"}, device_id : DeviceIds,
          meter_id : Opt(MeterIds), from_timestamp : Opt(SampleDatetimes),
          to_timestamp : Opt(SampleDatetimes), sort : SortDirections]
    \cup [fn : {"MeterReadingResource.export"}, device_id : DeviceIds,
          export_config : ExportConfigs,
          meter_id : Opt(MeterIds), from_timestamp : Opt(SampleDatetimes),
          to_timestamp : Opt(SampleDatetimes), sort : SortDirections]
    \cup [fn : {"MeterReadingResource.create"}, device_id : DeviceIds,
          meter_reading : SampleCreates, allow_rounding : Opt(BOOLEAN)]
    \cup [fn : {"MeterReadingResource.delete"}, device_id : DeviceIds,
          timestamp : SampleDatetimes]
    \cup [fn : {"EnvironmentResource.list"}, device_id : DeviceIds]
    \cup [fn : {"EnvironmentResource.get", "EnvironmentResource.delete"},
          device_id : DeviceIds, environment_id : EnvironmentIds]
    \cup [fn : {"EnvironmentResource.create"}, device_id : DeviceIds,
          environment_record : CreateEnvironmentRecordDtos]
    \cup [fn : {"EnvironmentResource.create_entry"}, device_id : DeviceIds,
          environment_id : EnvironmentIds, entry : SampleEntries]
    \cup [fn : {"EnvironmentResource.delete_entry"}, device_id : DeviceIds,
          environment_id : EnvironmentIds, timestamp : SampleDatetimes]

\* `params or None`: an empty dict is passed as None.
OrNone(params) == IF DOMAIN params = {} THEN None ELSE Some(params)

\* resources/devices.py 38-46 and 81-89
DeviceParams(o) ==
    IfPresent(o.name, "name", o.name[1])
        @@ IfPresent(o.folder_path, "folderPath", o.folder_path[1])
        @@ IfPresent(o.updated_after, "updatedAfter", isoformat(o.updated_after[1]))
        @@ IfPresent(o.updated_before, "updatedBefore", isoformat(o.updated_before[1]))

\* resources/meter_readings.py 47-55 and 157-165
ReadingParams(o) ==
    IfPresent(o.meter_id, "meterId", o.meter_id[1])
        @@ IfPresent(o.from_timestamp, "from", isoformat(o.from_timestamp[1]))
        @@ IfPresent(o.to_timestamp, "to", isoformat(o.to_timestamp[1]))
        @@ (IF o.sort # DESC THEN "sort" :> o.sort ELSE <<>>)

\* str(allow_rounding).lower()
str_lower(b) == IF b THEN "true" ELSE "false"

CreateParams_if_truthy(o) ==
    IF o.allow_rounding # None /\ o.allow_rounding[1]
        THEN "allowRounding" :> str_lower(o.allow_rounding[1]) ELSE <<>>

\* resources/meter_readings.py 89-91
CreateParams(o) ==
    IfPresent(o.allow_rounding, "allowRounding", str_lower(o.allow_rounding[1]))

Request(method, endpoint, params, json) ==
    [method |-> method, endpoint |-> endpoint, params |-> params, json |-> json]

Environments_v3(o) == "/v3/devices/standard/" \o o.device_id \o "/environments"

Environments(o) == "/v1/devices/standard/" \o o.device_id \o "/environments"
MeterReadings(o) == "/v3/devices/standard/" \o o.device_id \o "/meter-readings"

\* What each operation passes to _make_request.
RequestOf(o) ==
    CASE o.fn = "DeviceResource.list_standard" ->
            Request("GET", "/v1/devices/standard", OrNone(DeviceParams(o)), None)
      [] o.fn = "DeviceResource.list_virtual" ->
            Request("GET", "/v1/devices/virtual", OrNone(DeviceParams(o)), None)
      [] o.fn = "MeterReadingResource.list" ->
            Request("GET", MeterReadings(o), OrNone(ReadingParams(o)), None)
      [] o.fn = "MeterReadingResource.create" ->
            Request("POST", MeterReadings(o), OrNone(CreateParams(o)),
                    Some(CreateMeterReadingDto_to_dict(o.meter_reading)))
      [] o.fn = "MeterReadingResource.delete" ->
            Request("DELETE", MeterReadings(o), None,
                    Some(TimestampDto_to_dict([timestamp |-> o.timestamp])))
      [] o.fn = "MeterReadingResource.export" ->
            Request("POST", MeterReadings(o) \o "/export", OrNone(ReadingParams(o)),
                    Some(ExportMeterReadingsDto_to_dict(o.export_config)))
      [] o.fn = "EnvironmentResource.list" ->
            Request("GET", Environments(o), None, None)
      [] o.fn = "EnvironmentResource.get" ->
            Request("GET", Environments(o) \o "/" \o o.environment_id, None, None)
      [] o.fn = "EnvironmentResource.create" ->
            Request("POST", Environments(o), None,
                    Some(CreateEnvironmentRecordDto_to_dict(o.environment_record)))
      [] o.fn = "EnvironmentResource.delete" ->
            Request("DELETE", Environments(o) \o "/" \o o.environment_id, None, None)
      [] o.fn = "EnvironmentResource.create_entry" ->
            Request("POST", Environments(o) \o "/" \o o.environment_id, None,
                    Some(CreateEnvironmentEntryDto_to_dict(o.entry)))
      [] o.fn = "EnvironmentResource.delete_entry" ->
            Request("DELETE", Environments(o) \o "/" \o o.environment_id \o "/entries",
                    None, Some(TimestampDto_to_dict([timestamp |-> o.timestamp])))

\* type(data).__name__ of what _make_request returned
TypeName(v) == IF v.t = "None" THEN "NoneType" ELSE v.t

ModelFns  == {"EnvironmentResource.get", "EnvironmentResource.create"}
ListFns   == DeviceListFns \cup {"MeterReadingResource.list", "EnvironmentResource.list"}
BytesFns  == {"MeterReadingResource.export"}
NoResultFns ==
    {"MeterReadingResource.create", "MeterReadingResource.delete",
     "EnvironmentResource.delete", "EnvironmentResource.create_entry",
     "EnvironmentResource.delete_entry"}

\* BaseResource._request_model (resources/base.py 67-70).  gw is the outcome
\* of the awaited _make_request: an exception it raised passes through.  No
\* dict drawn carries the keys of an EnvironmentRecordDto.
_request_model(gw) ==
    IF gw.kind # "return" THEN gw
    ELSE IF gw.value.t # "dict"
        THEN EnergyTrackerAPIError(BaseKind,
                 "Expected dict response, got " \o TypeName(gw.value), None)
        ELSE Escapes("KeyError")

\* BaseResource._request_model_list (resources/base.py 90-93).  The items of
\* the lists drawn are no dicts.
_request_model_list(gw) ==
    IF gw.kind # "return" THEN gw
    ELSE IF gw.value.t # "list"
        THEN EnergyTrackerAPIError(BaseKind,
                 "Expected list response, got " \o TypeName(gw.value), None)
        ELSE IF Len(gw.value.items) = 0 THEN Return(JsonList(<<>>))
        ELSE Escapes("TypeError")

\* MeterReadingResource.export (resources/meter_readings.py 167-175)
export(gw) ==
    IF gw.kind # "return" THEN gw
    ELSE IF gw.value.t # "bytes"
        THEN EnergyTrackerAPIError(BaseKind,
                 "Expected bytes response, got " \o TypeName(gw.value), None)
        ELSE Return(gw.value)

ReturnsNone_swallows(gw) == Return(JsonNull)

\* create, delete, create_entry, delete_entry: `await _make_request(...)`
\* and nothing else; the operation returns None.
ReturnsNone(gw) == IF gw.kind # "return" THEN gw ELSE Return(JsonNull)

\* What operation o raises or returns when its _make_request ended in gw.
OpOutcome(o, gw) ==
    IF o.fn \in ModelFns THEN _request_model(gw)
    ELSE IF o.fn \in ListFns THEN _request_model_list(gw)
    ELSE IF o.fn \in BytesFns THEN export(gw)
    ELSE ReturnsNone(gw)

(***************************************************************************)
(* The base address given to __init__ (client.py 45-47).  A text is the    *)
(* sequence of its pieces: a whitespace character, a slash, or a run of    *)
(* other characters, which str.strip() and str.rstrip("/") never look into. *)
(***************************************************************************)
MaxUrlLen == 4   \* pieces of a base_url argument

Whitespace == {" ", "\t"}
UrlPieces  == {" ", "/", "api.example.com"}
\* "  https://api.example.com/  " of the tests
MessyUrl == <<" ", " ", "https:", "/", "/", "api.example.com", "/", " ", " ">>
BaseUrls == SeqsUpTo(UrlPieces, MaxUrlLen) \cup {MessyUrl}

_DEFAULT_BASE_URL ==
    <<"https:", "/", "/", "public-api.energy-tracker.best-ios-apps.de">>

\* str.lstrip(chars) and str.rstrip(chars): every leading (trailing)
\* character that is in chars is removed, and no other.
RECURSIVE lstrip(_, _)
lstrip(cs, chars) ==
    IF Len(cs) > 0 /\ Head(cs) \in chars THEN lstrip(Tail(cs), chars) ELSE cs

RECURSIVE rstrip(_, _)
rstrip(cs, chars) ==
    IF Len(cs) > 0 /\ cs[Len(cs)] \in chars
        THEN rstrip(SubSeq(cs, 1, Len(cs) - 1), chars) ELSE cs

\* str.strip(): whitespace removed at both ends.
strip(cs) == rstrip(lstrip(cs, Whitespace), Whitespace)

\* `base_url or self._DEFAULT_BASE_URL`: None and "" are both false.
UrlOrDefault(base_url) ==
    IF base_url = None \/ base_url[1] = <<>> THEN _DEFAULT_BASE_URL ELSE base_url[1]

\* client.py 45-47: url.strip().rstrip("/")
StoredBaseUrl(base_url) == rstrip(strip(UrlOrDefault(base_url)), {"/"})

\* client.py 52-54: the resource attributes __init__ binds to the client.
BoundResources == {"meter_readings"}

(***************************************************************************)
(* The state of one EnergyTrackerClient and of its callers.                 *)
(***************************************************************************)
VARIABLES
    _access_token,  \* the bearer token given to __init__
    _timeout,       \* the total timeout given to __init__, in seconds
    sessions,       \* every aiohttp.ClientSession this client has created
    _session,       \* index in sessions of self._session, 0 for None
    pc,             \* per caller: "idle", "inflight" (suspended on the exchange), "done"
    call,           \* per caller: the session its call obtained, and what it did
    result,         \* per caller: the response or failure its exchange ended with
    outcome,        \* per caller: what _make_request raised or returned
    closePc,        \* "idle", or "closing" while close() is suspended
    closeVia,       \* how the close() in progress was entered, "none" when none is
    closesDone,     \* close() calls completed
    openAtClose,    \* sessions still open when the last close() completed
    op,             \* the resource operation called, with its arguments
    request,        \* what that operation passed to _make_request
    opOutcome,      \* what the resource operation raised or returned
    dto,            \* Some(a request model object), or None
    wire,           \* Some(the dict its _to_dict() produced), or None
    decoded,        \* Some(a wire dict and what _from_dict() made of it), or None
    base_url,       \* the base_url argument given to __init__, None when omitted
    _base_url,      \* the base address __init__ stored
    resources       \* the resource attributes bound to the client

opvars    == <<op, request, opOutcome>>
codecvars == <<dto, wire, decoded>>
initvars  == <<base_url, _base_url, resources>>

vars == <<_access_token, _timeout, sessions, _session, pc, call, result, outcome,
          closePc, closeVia, closesDone, openAtClose,
          op, request, opOutcome, dto, wire, decoded,
          base_url, _base_url, resources>>

DefaultTimeout == 10
Timeouts == {DefaultTimeout, 5}
Tokens   == {"test-token", "other-token"}

NoCall    == [session |-> 0, afterClose |-> FALSE, created |-> FALSE, exchanges |-> 0,
              authorization |-> None]
NoResult  == [t |-> "none"]
NoOutcome == [kind |-> "none", message |-> "", api_message |-> <<>>,
              retry_after |-> None, value |-> NoValue]

NoOp      == [fn |-> "none"]
NoRequest == [method |-> "none"]

\* No resource operation has been called.
InitNoOp == op = NoOp /\ request = NoRequest /\ opOutcome = NoOutcome

\* No model object is being encoded or decoded.
InitNoCodec == dto = None /\ wire = None /\ decoded = None

\* __init__ (client.py 45-54) called without a base_url: the configuration is
\* stored, no session exists.
InitClient ==
    /\ _access_token \in Tokens
    /\ _timeout \in Timeouts
    /\ base_url = None
    /\ _base_url = StoredBaseUrl(None)
    /\ resources = BoundResources
    /\ sessions = <<>>
    /\ _session = 0
    /\ pc = [t \in Tasks |-> "idle"]
    /\ call = [t \in Tasks |-> NoCall]
    /\ result = [t \in Tasks |-> NoResult]
    /\ outcome = [t \in Tasks |-> NoOutcome]
    /\ closePc = "idle"
    /\ closeVia = "none"
    /\ closesDone = 0
    /\ openAtClose = {}

Init == InitClient /\ InitNoOp /\ InitNoCodec

(***************************************************************************)
(* _get_session (client.py 56-64): the new value of (sessions, _session).  *)
(* A session is created when there is none or the current one is closed.    *)
(***************************************************************************)
ClientSession_bare_token ==
    [closed |-> FALSE, authorization |-> _access_token, closeCalls |-> 0]

\* closeCalls counts the invocations of this session's own close().
ClientSession == [closed |-> FALSE, authorization |-> "Bearer " \o _access_token,
                  closeCalls |-> 0]

_get_session_per_call ==
    [sessions |-> Append(sessions, ClientSession), _session |-> Len(sessions) + 1]

_get_session_only_if_none ==
    IF _session = 0
        THEN [sessions |-> Append(sessions, ClientSession),
              _session |-> Len(sessions) + 1]
        ELSE [sessions |-> sessions, _session |-> _session]

_get_session ==
    IF _session = 0 \/ sessions[_session].closed
        THEN [sessions |-> Append(sessions, ClientSession),
              _session |-> Len(sessions) + 1]
        ELSE [sessions |-> sessions, _session |-> _session]

(***************************************************************************)
(* _make_request, first step (client.py 79-83): obtain the session and     *)
(* issue the request on it; the caller then waits for the exchange.  There *)
(* is no await that suspends between the two.  The request carries the     *)
(* session's default headers: no caller passes an Authorization of its own. *)
(***************************************************************************)
SendRequest(t) ==
    /\ pc[t] = "idle"
    /\ Len(_get_session.sessions) <= MaxSessions
    /\ sessions' = _get_session.sessions
    /\ _session' = _get_session._session
    /\ call' = [call EXCEPT ![t] =
                   [session |-> _get_session._session,
                    afterClose |-> closesDone > 0,
                    created |-> Len(_get_session.sessions) > Len(sessions),
                    exchanges |-> 1,
                    authorization |->
                        Some(_get_session.sessions[_get_session._session].authorization)]]
    /\ pc' = [pc EXCEPT ![t] = "inflight"]
    /\ UNCHANGED <<_access_token, _timeout, result, outcome,
                   closePc, closeVia, closesDone, openAtClose, initvars>>

\* _make_request called directly, outside any resource operation.
Call(t) == SendRequest(t) /\ UNCHANGED <<opvars, codecvars>>

(***************************************************************************)
(* _make_request, second step (client.py 83-133): the exchange ends with a *)
(* response or a transport failure and the call raises or returns.          *)
(***************************************************************************)
Resolve_shared(t, r) ==
    /\ pc[t] = "inflight"
    /\ result' = [result EXCEPT ![t] = r]
    /\ outcome' = [u \in Tasks |-> IF pc[u] = "idle" THEN outcome[u]
                                   ELSE Outcome(r, _timeout)]
    /\ pc' = [pc EXCEPT ![t] = "done"]
    /\ UNCHANGED <<_access_token, _timeout, sessions, _session, call,
                   closePc, closeVia, closesDone, openAtClose, initvars>>

Resolve(t, r) ==
    /\ pc[t] = "inflight"
    /\ result' = [result EXCEPT ![t] = r]
    /\ outcome' = [outcome EXCEPT ![t] = Outcome(r, _timeout)]
    /\ pc' = [pc EXCEPT ![t] = "done"]
    /\ UNCHANGED <<_access_token, _timeout, sessions, _session, call,
                   closePc, closeVia, closesDone, openAtClose, initvars>>

Respond(t, r) == Resolve(t, r) /\ UNCHANGED <<opvars, codecvars>>

(***************************************************************************)
(* The caller's task is cancelled while _make_request is suspended on the  *)
(* exchange (client.py 83-85): CancelledError is raised at that await,     *)
(* passes the except clauses of client.py 86 and 130-133 and leaves        *)
(* _make_request; leaving the `async with` aborts the exchange.             *)
(***************************************************************************)
Cancel(t) ==
    /\ pc[t] = "inflight"
    /\ result' = [result EXCEPT ![t] = CancelledError]
    /\ outcome' = [outcome EXCEPT ![t] = OnTransportFailure(CancelledError, _timeout)]
    /\ pc' = [pc EXCEPT ![t] = "cancelled"]
    /\ UNCHANGED <<_access_token, _timeout, sessions, _session, call,
                   closePc, closeVia, closesDone, openAtClose, initvars>>

\* The caller has its outcome and may call again.
Finish(t) ==
    /\ pc[t] = "done"
    /\ pc' = [pc EXCEPT ![t] = "idle"]
    /\ call' = [call EXCEPT ![t] = NoCall]
    /\ result' = [result EXCEPT ![t] = NoResult]
    /\ outcome' = [outcome EXCEPT ![t] = NoOutcome]
    /\ UNCHANGED <<_access_token, _timeout, sessions, _session,
                   closePc, closeVia, closesDone, openAtClose, opvars, codecvars, initvars>>

(***************************************************************************)
(* close (client.py 135-138), entered directly or through __aexit__        *)
(* (client.py 143-144), which ignores whether the block raised.  When the  *)
(* current session is open, its close() marks it closed at once            *)
(* (ClientSession.closed is true from then on) and may then suspend until  *)
(* its connections are released; otherwise close() returns immediately.     *)
(***************************************************************************)
CloseVias == {"close", "aexit", "aexit_raised"}

OpenSessions(ss) == {i \in 1..Len(ss) : ~ss[i].closed}

SessionOpen_unless_none == _session # 0

\* `self._session and not self._session.closed` (client.py 137)
SessionOpen == _session # 0 /\ ~sessions[_session].closed

CloseStart(via, suspends) ==
    /\ closePc = "idle"
    /\ closesDone < MaxCloses
    /\ closeVia' = IF SessionOpen /\ suspends THEN via ELSE "none"
    /\ IF SessionOpen
          THEN /\ sessions' = [sessions EXCEPT
                                  ![_session].closed = TRUE,
                                  ![_session].closeCalls = @ + 1]
               /\ IF suspends
                     THEN /\ closePc' = "closing"
                          /\ UNCHANGED <<closesDone, openAtClose>>
                     ELSE /\ closePc' = "idle"
                          /\ closesDone' = closesDone + 1
                          /\ openAtClose' = OpenSessions(sessions')
          ELSE /\ suspends = FALSE
               /\ closePc' = "idle"
               /\ closesDone' = closesDone + 1
               /\ openAtClose' = OpenSessions(sessions)
               /\ UNCHANGED sessions
    /\ UNCHANGED <<_access_token, _timeout, _session, pc, call, result, outcome,
                   opvars, codecvars, initvars>>

\* `await self._session.close()` resumes: close() completes.
CloseDone ==
    /\ closePc = "closing"
    /\ closePc' = "idle"
    /\ closesDone' = closesDone + 1
    /\ openAtClose' = OpenSessions(sessions)
    /\ closeVia' = "none"
    /\ UNCHANGED <<_access_token, _timeout, sessions, _session, pc, call, result,
                   outcome, opvars, codecvars, initvars>>

(***************************************************************************)
(* Spec: concurrent callers and close() on one client, each exchange       *)
(* ending with a success response or with a timeout.                        *)
(***************************************************************************)
SampleResults ==
    {[t |-> "response", status |-> 200, body |-> JsonDict, retry_after |-> None],
     [t |-> "failure", classes |-> {"TimeoutError"}, text |-> "Connection error"]}

Next ==
    \/ \E t \in Tasks : Call(t)
    \/ \E t \in Tasks : pc[t] = "inflight" /\ \E r \in SampleResults : Respond(t, r)
    \/ \E t \in Tasks : Finish(t)
    \/ \E via \in CloseVias : \E suspends \in BOOLEAN : CloseStart(via, suspends)
    \/ CloseDone

\* The timeout plays no part in the session lifecycle.
InitDefaultTimeout == Init /\ _timeout = DefaultTimeout

Spec == InitDefaultTimeout /\ [][Next]_vars

(***************************************************************************)
(* SpecExec: one call of one caller, its exchange ending with any response *)
(* or transport failure.                                                    *)
(***************************************************************************)
NextExec ==
    \/ Call(1)
    \/ pc[1] = "inflight" /\ \E r \in Results : Respond(1, r)

SpecExec == Init /\ [][NextExec]_vars

(***************************************************************************)
(* SpecOps: one resource operation on a new client.  The operation builds  *)
(* its request and awaits _make_request; when the exchange ends it raises  *)
(* or returns, unless its task is cancelled first.                          *)
(***************************************************************************)
OpResults ==
    [t : {"response"}, status : {200, 204, 400, 404, 429, 500},
     body : {JsonDict, JsonMsg(JsonStr("Invalid token")), JsonList(<<>>),
             JsonNull, Unparseable},
     retry_after : {None, Some(<<"7">>)}]
        \cup Failures

InitOps ==
    /\ InitClient /\ _timeout = DefaultTimeout /\ _access_token = "test-token"
    /\ InitNoOp
    /\ InitNoCodec

Invoke(o) ==
    /\ op = NoOp
    /\ op' = o
    /\ request' = RequestOf(o)
    /\ SendRequest(1)
    /\ UNCHANGED <<opOutcome, codecvars>>

Settle(r) ==
    /\ op # NoOp
    /\ Resolve(1, r)
    /\ opOutcome' = OpOutcome(op, Outcome(r, _timeout))
    /\ UNCHANGED <<op, request, codecvars>>

\* The operation's task is cancelled while it awaits _make_request.
CancelOp ==
    /\ op # NoOp
    /\ Cancel(1)
    /\ opOutcome' = OpOutcome(op, OnTransportFailure(CancelledError, _timeout))
    /\ UNCHANGED <<op, request, codecvars>>

NextOps ==
    \/ op = NoOp /\ \E o \in Ops : Invoke(o)
    \/ pc[1] = "inflight" /\ \E r \in OpResults : Settle(r)
    \/ CancelOp

SpecOps == InitOps /\ [][NextOps]_vars

(***************************************************************************)
(* SpecCodec: one request model is encoded by its _to_dict, and one wire   *)
(* dict is decoded by the _from_dict of its model class: a device, an      *)
(* environment record or a meter reading the server holds, or the reading  *)
(* it made of the value text just encoded.                                  *)
(***************************************************************************)
Dtos == CreateMeterReadingDtos \cup CreateEnvironmentRecordDtos
            \cup CreateEnvironmentEntryDtos \cup TimestampDtos
            \cup ExportMeterReadingsDtos

InitCodec ==
    /\ InitClient /\ _timeout = DefaultTimeout /\ _access_token = "test-token"
    /\ InitNoOp
    /\ dto \in {Some(d) : d \in Dtos}
    /\ wire = None
    /\ decoded = None

ToDict ==
    /\ wire = None
    /\ wire' = Some(_to_dict(dto[1]))
    /\ UNCHANGED <<_access_token, _timeout, sessions, _session, pc, call, result,
                   outcome, closePc, closeVia, closesDone, openAtClose,
                   opvars, dto, decoded, initvars>>

\* The readings the server may send: those it holds and, once a meter
\* reading was encoded, one carrying the value text it was sent.
ServerReadings ==
    WireReadings \cup
        (IF wire # None /\ dto[1].t = "CreateMeterReadingDto"
            THEN {WireReading(wire[1]["value"].chars,
                              "2024-01-15T10:30:45.123Z", dto[1].note)}
            ELSE {})

\* What the server may send, with the model class its operation decodes it
\* into.
ServerPayloads ==
    [cls : {"MeterReadingDto"}, data : ServerReadings]
        \cup [cls : {"DeviceSummaryDto"}, data : WireDevices]
        \cup [cls : {"EnvironmentRecordDto"}, data : WireEnvironments]

FromDict(cls, data) ==
    /\ decoded = None
    /\ decoded' = Some([cls |-> cls, data |-> data, dto |-> _from_dict(cls, data)])
    /\ UNCHANGED <<_access_token, _timeout, sessions, _session, pc, call, result,
                   outcome, closePc, closeVia, closesDone, openAtClose,
                   opvars, dto, wire, initvars>>

NextCodec ==
    \/ ToDict
    \/ decoded = None /\ \E data \in ServerReadings : FromDict("MeterReadingDto", data)

SpecCodec == InitCodec /\ [][NextCodec]_vars

(***************************************************************************)
(* SpecDecode: one wire dict of any model class is decoded.                 *)
(***************************************************************************)
NextDecode == decoded = None /\ \E p \in ServerPayloads : FromDict(p.cls, p.data)

SpecDecode == Init /\ [][NextDecode]_vars

(***************************************************************************)
(* SpecConstruct: EnergyTrackerClient(access_token, base_url, timeout) is  *)
(* called with any base_url argument; __init__ stores the configuration    *)
(* and binds the resources.                                                 *)
(***************************************************************************)
InitConstruct ==
    /\ _access_token \in Tokens
    /\ _timeout \in Timeouts
    /\ base_url \in Opt(BaseUrls)
    /\ _base_url = <<>>
    /\ resources = {}
    /\ sessions = <<>>
    /\ _session = 0
    /\ pc = [t \in Tasks |-> "idle"]
    /\ call = [t \in Tasks |-> NoCall]
    /\ result = [t \in Tasks |-> NoResult]
    /\ outcome = [t \in Tasks |-> NoOutcome]
    /\ closePc = "idle"
    /\ closeVia = "none"
    /\ closesDone = 0
    /\ openAtClose = {}
    /\ InitNoOp
    /\ InitNoCodec

\* EnergyTrackerClient.__init__ (client.py 32-54)
__init__ ==
    /\ resources = {}
    /\ _base_url' = StoredBaseUrl(base_url)
    /\ _session' = 0
    /\ resources' = BoundResources
    /\ UNCHANGED <<_access_token, _timeout, base_url, sessions, pc, call, result,
                   outcome, closePc, closeVia, closesDone, openAtClose,
                   opvars, codecvars>>

NextConstruct == __init__

SpecConstruct == InitConstruct /\ [][NextConstruct]_vars

(***************************************************************************)
(* Properties of the classification, checked under SpecExec.                *)
(***************************************************************************)
Done(t)        == pc[t] = "done"
GotResponse(t) == Done(t) /\ result[t].t = "response"
GotFailure(t)  == Done(t) /\ result[t].t = "failure"

DedicatedStatuses == {400, 401, 403, 404, 409, 429}
ClaimedKind(s) ==
    CASE s = 400 -> "ValidationError"
      [] s = 401 -> "AuthenticationError"
      [] s = 403 -> "ForbiddenError"
      [] s = 404 -> "ResourceNotFoundError"
      [] s = 409 -> "ConflictError"
      [] s = 429 -> "RateLimitError"
      [] OTHER   -> BaseKind

\* C1: every received response is classified by its status alone: 200-399
\* returns with no error; 400, 401, 403, 404, 409 and 429 raise their dedicated
\* kind (the four fixed messages included) and every other status >= 400
\* raises the base error.
C1_StatusClassificationTotal ==
    \A t \in Tasks : GotResponse(t) =>
        LET s == result[t].status
            o == outcome[t]
        IN  /\ (s \in 200..399 => o.kind = "return")
            /\ (s >= 400 => o.kind = ClaimedKind(s))
            /\ (s = 401 => o.message = "Unauthorized: Check your access token")
            /\ (s = 403 => o.message = "Forbidden: Insufficient permissions")
            /\ (s = 404 => o.message = "Not Found")
            /\ (s = 409 => o.message = "Conflict")

\* C2, as claimed: the base error raised for status s says "Server error: s"
\* for s in 500..599 and "HTTP error: s" for every other s, 600 and above
\* included.
C2_CatchAllMessageByRange ==
    \A t \in Tasks : (GotResponse(t) /\ outcome[t].kind = BaseKind) =>
        LET s == result[t].status
        IN  outcome[t].message =
                IF s \in 500..599 THEN "Server error: " \o ToString(s)
                ELSE "HTTP error: " \o ToString(s)

\* C2, as amended: the base error is raised for a status s >= 400 that has no
\* dedicated kind (for every such response whose body is a JSON object or is
\* unparseable), and its message is "Server error: s" for every s >= 500 and
\* "HTTP error: s" for every other s.
C2_CatchAllMessage ==
    \A t \in Tasks : GotResponse(t) =>
        LET s == result[t].status
            o == outcome[t]
        IN  /\ (o.kind = BaseKind =>
                   /\ s >= 400 /\ s \notin DedicatedStatuses
                   /\ (s >= 500 => o.message = "Server error: " \o ToString(s))
                   /\ (s < 500 => o.message = "HTTP error: " \o ToString(s)))
            /\ (s >= 400 /\ s \notin DedicatedStatuses /\ HasGet(DataOf(result[t]))
                   => o.kind = BaseKind)

C2_Witness ==
    \E t \in Tasks :
        /\ GotResponse(t) /\ result[t].status = 600
        /\ outcome[t].kind = BaseKind
        /\ outcome[t].message = "Server error: 600"

\* C3: the RateLimitError's message carries " - Retry after n seconds" exactly
\* when its retry_after is set (0 included), and no suffix when it is None.
C3_SuffixIffRetryAfterSet ==
    \A t \in Tasks : (GotResponse(t) /\ outcome[t].kind = "RateLimitError") =>
        LET o == outcome[t]
        IN  o.message =
                IF o.retry_after # None
                    THEN "Too Many Requests: Rate limit exceeded - Retry after "
                             \o ToString(o.retry_after[1]) \o " seconds"
                    ELSE "Too Many Requests: Rate limit exceeded"

\* The decimal text of a non-negative integer, and the integer it denotes.
IsDecimalText(h) == Len(h) > 0 /\ \A i \in 1..Len(h) : h[i] \in {"0", "7"}
RECURSIVE DecimalValue(_)
DecimalValue(h) ==
    IF Len(h) = 0 THEN 0
    ELSE (IF Head(h) = "7" THEN 7 ELSE 0) * (10 ^ (Len(h) - 1)) + DecimalValue(Tail(h))

\* C4: a 429 response (its body a JSON object or unparseable) raises a
\* RateLimitError whose retry_after is n when the Retry-After header is the
\* decimal text of n >= 0, and None when the header is missing, empty, negative
\* or not an integer; no other outcome carries a retry_after.
C4_RetryAfterFromHeader ==
    \A t \in Tasks : GotResponse(t) =>
        LET r == result[t]
            o == outcome[t]
            h == r.retry_after
        IN  /\ (r.status = 429 /\ HasGet(DataOf(r))) =>
                   /\ o.kind = "RateLimitError"
                   /\ o.retry_after =
                          IF h # None /\ IsDecimalText(h[1])
                              THEN Some(DecimalValue(h[1])) ELSE None
            /\ (r.status # 429 => o.retry_after = None)

RECURSIVE JoinedBySemicolon(_)
JoinedBySemicolon(l) ==
    IF Len(l) = 0 THEN ""
    ELSE IF Len(l) = 1 THEN l[1]
    ELSE JoinedBySemicolon(SubSeq(l, 1, Len(l) - 1)) \o "; " \o l[Len(l)]

\* C5: a 400 response raises a ValidationError that carries the extracted
\* api_message list unchanged and whose message is "Bad Request" when that
\* list is empty and "Bad Request (m1; m2; ...)" otherwise.
C5_ValidationMessage ==
    \A t \in Tasks : GotResponse(t) =>
        LET r == result[t]
            o == outcome[t]
            api == _extract_api_message(DataOf(r))
        IN  /\ (o.kind = "ValidationError" =>
                   /\ r.status = 400
                   /\ o.api_message = api
                   /\ o.message =
                          IF api = <<>> THEN "Bad Request"
                          ELSE "Bad Request (" \o JoinedBySemicolon(api) \o ")")
            /\ (r.status = 400 /\ HasGet(DataOf(r)) => o.kind = "ValidationError")

C5_Witness ==
    \E t \in Tasks :
        /\ GotResponse(t) /\ result[t].status = 400
        /\ outcome[t].kind = "ValidationError"
        /\ outcome[t].api_message = <<"Field 'value' is required", "123">>
        /\ outcome[t].message = "Bad Request (Field 'value' is required; 123)"

\* C6: whatever the response or the transport failure, a call that raises
\* raises an instance of EnergyTrackerAPIError.
C6_OnlyTaxonomyErrors ==
    \A t \in Tasks : Done(t) =>
        (outcome[t].kind = "return" \/ outcome[t].kind \in TaxonomyKinds)

\* C7: a transport failure that is a timeout raises TimeoutError, whatever
\* else it is an instance of; every other transport failure raises
\* NetworkError; both carry an empty api_message.
C7_TimeoutByNature ==
    \A t \in Tasks : GotFailure(t) =>
        /\ outcome[t].kind =
               IF "TimeoutError" \in result[t].classes
                   THEN "TimeoutError" ELSE "NetworkError"
        /\ outcome[t].api_message = <<>>

\* C8: on a success status the call returns the decoded body: a dict, a list
\* or bytes.
C8_ReturnsDecodedBody ==
    \A t \in Tasks :
        (GotResponse(t) /\ result[t].status \in 200..399
             /\ outcome[t].kind = "return")
            => outcome[t].value.t \in {"dict", "list", "bytes"}

\* C12: one call performs exactly one network exchange and then resolves:
\* whatever the response or transport failure (429 with a Retry-After, 5xx,
\* network failure and timeout included), the finished call has issued one
\* request and no second one, and it ended in a return or in exactly one
\* taxonomy error.
C12_OneExchangeThenResolves ==
    \A t \in Tasks : Done(t) =>
        /\ call[t].exchanges = 1
        /\ (outcome[t].kind = "return" \/ outcome[t].kind \in TaxonomyKinds)

StatusErrorKinds ==
    {"ValidationError", "AuthenticationError", "ForbiddenError",
     "ResourceNotFoundError", "ConflictError", "RateLimitError", BaseKind}

\* C13: every status error raised for a response (Validation, Authentication,
\* Forbidden, ResourceNotFound, Conflict, RateLimit or the catch-all) carries
\* the api_message list extracted from the response body, unchanged and in
\* order; the api_message of every taxonomy error raised is a list of strings;
\* it is empty on every NetworkError and TimeoutError and on every error
\* constructed without messages.
C13_ApiMessagesAttached ==
    /\ \A t \in Tasks : (Done(t) /\ outcome[t].kind \in TaxonomyKinds) =>
           LET o == outcome[t]
           IN  /\ o.api_message \in Seq(STRING)
               /\ (GotResponse(t) =>
                      /\ o.kind \in StatusErrorKinds
                      /\ o.api_message = _extract_api_message(DataOf(result[t])))
               /\ (GotFailure(t) =>
                      /\ o.kind \in {"NetworkError", "TimeoutError"}
                      /\ o.api_message = <<>>)
    /\ \A k \in TaxonomyKinds \ {"RateLimitError"} :
           EnergyTrackerAPIError(k, "message", None).api_message = <<>>
    /\ RateLimitError("message", None, None).api_message = <<>>

\* A 403 response whose body carries a two-element message list has raised
\* a ForbiddenError carrying both elements in their order.
C13_Witness ==
    \E t \in Tasks :
        /\ GotResponse(t) /\ result[t].status = 403
        /\ result[t].body = JsonMsg(JsonList(<<JsonNum(123), JsonStr("Field 'value' is required")>>))
        /\ outcome[t].kind = "ForbiddenError"
        /\ outcome[t].api_message = <<"123", "Field 'value' is required">>

\* C26: for a response whose body is a JSON object (the empty object for an
\* unparseable body) the extraction raises nothing, whatever the `message`
\* field is, and the api_message of the error raised for a status >= 400 is
\* determined by that field: a string gives the one-element list holding it;
\* a list gives a list of strings of the same length, element i being the
\* text of list item i (a string item itself, the decimal text of a number);
\* a field that is absent, null, an object, a number or a boolean gives the
\* empty list.
C26_ApiMessageExtraction ==
    \A t \in Tasks :
        (GotResponse(t) /\ HasGet(DataOf(result[t]))
             /\ ~(result[t].status = 429 /\ RetryRaises(result[t].retry_after))) =>
            LET data == DataOf(result[t])
                got  == outcome[t].api_message
            IN  /\ outcome[t].kind \in StatusErrorKinds \cup {"return"}
                /\ (result[t].status >= 400 <=> outcome[t].kind \in StatusErrorKinds)
                /\ got \in Seq(STRING)
                /\ (result[t].status >= 400 /\ ~data.has_message => got = <<>>)
                /\ (result[t].status >= 400 /\ data.has_message =>
                       LET message == data.message
                       IN  /\ (message.t = "str" => got = <<message.s>>)
                           /\ (message.t \in {"None", "dict", "int", "bool"} => got = <<>>)
                           /\ (message.t = "list" =>
                                  /\ Len(got) = Len(message.items)
                                  /\ \A i \in 1..Len(got) :
                                         /\ (message.items[i].t = "str"
                                                => got[i] = message.items[i].s)
                                         /\ (message.items[i] = JsonNum(123)
                                                => got[i] = "123")))

\* A 500 response whose message is the list [null, 123] raised an error
\* carrying the two texts.
C26_Witness ==
    \E t \in Tasks :
        /\ GotResponse(t) /\ result[t].status = 500
        /\ result[t].body = JsonMsg(JsonList(<<JsonNull, JsonNum(123)>>))
        /\ outcome[t].api_message = <<"None", "123">>

\* C27: a response whose body cannot be parsed as JSON is classified as the
\* same response with the empty object for a body: the parse failure raises
\* nothing, the outcome has the same kind, message and retry_after, its
\* api_message is empty, a status >= 400 raises the kind of that status and a
\* success status still returns.
C27_UnparseableBodyIsEmptyObject ==
    \A t \in Tasks : (GotResponse(t) /\ result[t].body = Unparseable) =>
        LET r == result[t]
            o == outcome[t]
        IN  /\ o = Classify([r EXCEPT !.body = JsonDict])
            /\ o.api_message = <<>>
            /\ (r.status \in 200..399 => o.kind = "return")
            /\ (r.status >= 400 /\ ~(r.status = 429 /\ RetryRaises(r.retry_after))
                   => o.kind = ClaimedKind(r.status))
            /\ o.kind # "AttributeError"

\* A 404 response with an unparseable body raised ResourceNotFoundError
\* "Not Found" with no api_message.
C27_Witness ==
    \E t \in Tasks :
        /\ GotResponse(t) /\ result[t].status = 404 /\ result[t].body = Unparseable
        /\ outcome[t].kind = "ResourceNotFoundError"
        /\ outcome[t].message = "Not Found"
        /\ outcome[t].api_message = <<>>

(***************************************************************************)
(* Properties of the session lifecycle, checked under Spec.                 *)
(***************************************************************************)

\* C9, as claimed: a call made after a close() has completed creates no
\* session, performs no exchange and ends with an error.
C9_FailsFastAfterClose ==
    \A t \in Tasks : call[t].afterClose =>
        /\ ~call[t].created
        /\ call[t].exchanges = 0
        /\ pc[t] # "inflight"
        /\ (Done(t) => outcome[t].kind # "return")

\* C9, as amended: a call made after a close() has completed does not fail
\* fast: it obtains an open session, which is a newly created one whenever
\* the client's current session is absent or closed, makes it the client's
\* current session and performs its one exchange on it.
C9_ReconnectsAfterClose ==
    [][\A t \in Tasks :
          (pc[t] = "idle" /\ pc'[t] = "inflight" /\ closesDone > 0) =>
              /\ call'[t].exchanges = 1
              /\ call'[t].session \in 1..Len(sessions')
              /\ call'[t].session = _session'
              /\ ~sessions'[call'[t].session].closed
              /\ ((_session = 0 \/ sessions[_session].closed) =>
                     /\ Len(sessions') = Len(sessions) + 1
                     /\ _session' = Len(sessions'))
              /\ ((_session # 0 /\ ~sessions[_session].closed) =>
                     /\ sessions' = sessions
                     /\ _session' = _session)]_vars

C9_Witness ==
    \E t \in Tasks :
        /\ pc[t] = "inflight" /\ call[t].afterClose /\ call[t].created
        /\ call[t].session = 2 /\ _session = 2
        /\ sessions[1].closed /\ ~sessions[2].closed
        /\ closePc = "idle"

\* C10: when close() (or __aexit__, however the block ended) has completed,
\* every session the client has created is closed.
C10_AllSessionsClosedAtClose ==
    closesDone > 0 => openAtClose = {}

\* C17: every exchange sent, on the first session or on one created after an
\* earlier session was closed, carries the header Authorization with the
\* value "Bearer <token>", the token being the one the client was constructed
\* with.
C17_BearerOnEveryExchange ==
    \A t \in Tasks : call[t].exchanges > 0 =>
        call[t].authorization = Some("Bearer " \o _access_token)

\* An exchange is in flight on a session created after the first was closed.
C17_Witness ==
    \E t \in Tasks :
        /\ pc[t] = "inflight" /\ call[t].exchanges = 1
        /\ call[t].session = 2 /\ call[t].created /\ sessions[1].closed
        /\ _access_token = "other-token"
        /\ call[t].authorization = Some("Bearer other-token")

\* A step in which a close() call starts, and one in which it also completes.
CloseStarts   == closePc = "idle" /\ (closePc' = "closing" \/ closesDone' = closesDone + 1)
CloseReturnsAtOnce == closePc' = "idle" /\ closesDone' = closesDone + 1

\* C11: close() is idempotent.  No session ever has its close() invoked more
\* than once, however many times close() is called; and a close() called when
\* no session was ever created, or when the current session is already closed
\* (a close() following a close()), returns at once and leaves the sessions
\* and the current session exactly as they were.
C11_CloseIdempotent ==
    /\ [](\A i \in 1..Len(sessions) :
             /\ sessions[i].closeCalls <= 1
             /\ sessions[i].closed <=> sessions[i].closeCalls = 1)
    /\ [][(CloseStarts /\ (_session = 0 \/ sessions[_session].closed)) =>
              /\ CloseReturnsAtOnce
              /\ sessions' = sessions
              /\ _session' = _session]_vars

\* Two close() calls have completed on a client that created one session.
C11_Witness ==
    /\ closesDone = 2 /\ closePc = "idle"
    /\ Len(sessions) = 1 /\ _session = 1
    /\ sessions[1].closed /\ sessions[1].closeCalls = 1

\* A step in which a session is created.
SessionCreated == Len(sessions') > Len(sessions)

\* C28: the session is created lazily and singly.  A constructed client has
\* no session; a session is created only in the step in which a call obtains
\* its session, and only when the client's current session is absent or
\* closed; at every moment, under every interleaving of the callers and of
\* close(), at most one session the client created is unclosed, and it is the
\* client's current one, so that concurrent calls use the same session.
C28_SessionLazyAndSingle ==
    /\ (sessions = <<>> /\ _session = 0)
    /\ [](/\ Cardinality(OpenSessions(sessions)) <= 1
          /\ OpenSessions(sessions) \subseteq {_session}
          /\ \A t, u \in Tasks :
                 (pc[t] = "inflight" /\ pc[u] = "inflight"
                      /\ ~sessions[call[t].session].closed
                      /\ ~sessions[call[u].session].closed)
                     => call[t].session = call[u].session)
    /\ [][SessionCreated =>
              /\ Len(sessions') = Len(sessions) + 1
              /\ (_session = 0 \/ sessions[_session].closed)
              /\ \E t \in Tasks : pc[t] = "idle" /\ pc'[t] = "inflight"
                                      /\ call'[t].session = Len(sessions')]_vars

\* Two calls are in flight at once on the one session the first of them
\* created.
C28_Witness ==
    /\ pc[1] = "inflight" /\ pc[2] = "inflight"
    /\ Len(sessions) = 1 /\ _session = 1 /\ ~sessions[1].closed
    /\ call[1].session = 1 /\ call[2].session = 1
    /\ call[1].created # call[2].created

\* C29: the outcome a caller gets is the classification of its own exchange
\* (its response, or its transport failure) and of nothing else: in every
\* reachable state, whatever calls came before and whatever other call is in
\* flight or done, a finished call holds the outcome of its own result; a
\* step of one caller leaves the result and the outcome of every other caller
\* as they were; and no step changes the base address, the token or the
\* timeout.
C29_OutcomeOfOwnExchangeOnly ==
    /\ [](\A t \in Tasks : Done(t) =>
             /\ outcome[t] = Outcome(result[t], DefaultTimeout)
             /\ (result[t].t = "response" => outcome[t].kind = "return")
             /\ (result[t].t = "failure" => outcome[t].kind = "TimeoutError"))
    /\ [][\A u \in Tasks : pc'[u] = pc[u] =>
              (outcome'[u] = outcome[u] /\ result'[u] = result[u])]_vars
    /\ [][UNCHANGED <<_base_url, _access_token, _timeout>>]_vars

\* Two concurrent calls on one session are done, one with its response and
\* the other with its timeout, after an earlier call and a close().
C29_Witness ==
    /\ Done(1) /\ Done(2)
    /\ call[1].session = call[2].session
    /\ result[1].t = "response" /\ outcome[1].kind = "return"
    /\ result[2].t = "failure" /\ outcome[2].kind = "TimeoutError"
    /\ call[1].session = 2 /\ closesDone = 1

(***************************************************************************)
(* Properties of the request and response models, checked under SpecCodec.  *)
(***************************************************************************)
Encoded == wire # None
Present(opt, key) == IF opt # None THEN {key} ELSE {}

\* C18: the encoded payload of a CreateMeterReadingDto, a
\* CreateEnvironmentRecordDto and a CreateEnvironmentEntryDto has exactly the
\* required key (value, or title) plus one key for each optional field
\* (timestamp, note, unit) that is not None, and none of its values is null.
C18_OmitsAbsentFields ==
    Encoded =>
        LET d == dto[1]
            w == wire[1]
        IN  /\ (d.t = "CreateMeterReadingDto" =>
                   DOMAIN w = {"value"} \cup Present(d.timestamp, "timestamp")
                                  \cup Present(d.note, "note"))
            /\ (d.t = "CreateEnvironmentRecordDto" =>
                   DOMAIN w = {"title"} \cup Present(d.unit, "unit"))
            /\ (d.t = "CreateEnvironmentEntryDto" =>
                   DOMAIN w = {"value"} \cup Present(d.timestamp, "timestamp"))
            /\ \A k \in DOMAIN w : w[k].t # "None"

\* A meter reading with a note and no timestamp was encoded to two keys.
C18_Witness ==
    /\ Encoded /\ dto[1].t = "CreateMeterReadingDto"
    /\ dto[1].timestamp = None /\ dto[1].note = Some("Manual reading")
    /\ DOMAIN wire[1] = {"value", "note"}
    /\ wire[1]["note"] = JsonStr("Manual reading")

\* The number a finite Decimal is, times 10^WireScale.
Scaled(d) ==
    (IF d.sign = 1 THEN 0 - 1 ELSE 1) * NatOf(d.int) * (10 ^ (d.exp + WireScale))

Base10Chars == DigitSet \cup {"-", "+", ".", "E"}

\* C20: a meter value survives the wire.  The encoded `value` is a JSON
\* string, the base-10 text of the Decimal (digits, sign, point, exponent);
\* decoding a wire text yields the Decimal equal to the number the text
\* denotes; and decoding the text an encoding produced yields the original
\* Decimal: same sign, digits (trailing zeros included) and exponent.
C20_ValueSurvivesWire ==
    /\ (Encoded /\ dto[1].t = "CreateMeterReadingDto") =>
           LET v == wire[1]["value"]
           IN  /\ v.t = "str"
               /\ Len(v.chars) > 0
               /\ \A i \in 1..Len(v.chars) : v.chars[i] \in Base10Chars
    /\ (decoded # None /\ decoded[1].cls = "MeterReadingDto") =>
           LET data == decoded[1].data
               got  == decoded[1].dto
           IN  /\ got.kind = "return"
               /\ \A v \in WireValues :
                      data["value"].chars = v.chars => Scaled(got.value.value) = v.scaled
               /\ (Encoded /\ dto[1].t = "CreateMeterReadingDto"
                       /\ data["value"] = wire[1]["value"])
                      => got.value.value = dto[1].value

\* Decimal("12345.67890") was encoded to "12345.67890" and that text was
\* decoded to the same Decimal.
C20_Witness ==
    /\ Encoded /\ dto[1].t = "CreateMeterReadingDto" /\ dto[1].value = PreciseDecimal
    /\ wire[1]["value"] =
           JsonChars(<<"1", "2", "3", "4", "5", ".", "6", "7", "8", "9", "0">>)
    /\ decoded # None /\ decoded[1].cls = "MeterReadingDto"
    /\ decoded[1].data["value"] = wire[1]["value"]
    /\ decoded[1].dto.kind = "return"
    /\ decoded[1].dto.value.value = PreciseDecimal

\* The fixed wire token of each column, delimiter and date format.
WireToken(member) ==
    CASE member = "DATE" -> "date" [] member = "VALUE" -> "value"
      [] member = "NOTE" -> "note" [] member = "METER_ID" -> "meter_id"
      [] member = "METER_NUMBER" -> "meter_number"
      [] member = "COMMA" -> "comma" [] member = "SEMICOLON" -> "semicolon"
      [] member = "TAB" -> "tab" [] member = "ISO" -> "iso"
      [] member = "DATE_TIME" -> "date_time" [] member = "UNIX" -> "unix"
      [] member = "UNIX_MS" -> "unix_ms"

\* C23: the encoded export configuration has exactly the keys columns,
\* includeHeader, delimiter and dateFormat; its columns are the configuration's
\* columns, one for one and in the same order (duplicates kept), each written
\* as its wire token, as are the delimiter and the date format; and a
\* configuration constructed from columns alone has includeHeader true,
\* delimiter comma and dateFormat iso.
C23_ExportConfigEncoding ==
    /\ (Encoded /\ dto[1].t = "ExportMeterReadingsDto") =>
           LET d == dto[1]
               w == wire[1]
           IN  /\ DOMAIN w = {"columns", "includeHeader", "delimiter", "dateFormat"}
               /\ w["columns"].t = "list"
               /\ Len(w["columns"].items) = Len(d.columns)
               /\ \A i \in 1..Len(d.columns) :
                      w["columns"].items[i] = JsonStr(WireToken(d.columns[i]))
               /\ w["includeHeader"] = JsonBoolOf(d.include_header)
               /\ w["delimiter"] = JsonStr(WireToken(d.delimiter))
               /\ w["dateFormat"] = JsonStr(WireToken(d.date_format))
    /\ \A cols \in ColumnLists :
           LET w == ExportMeterReadingsDto_to_dict(
                        ExportMeterReadingsDto(cols, None, None, None))
           IN  /\ w["includeHeader"] = JsonBoolOf(TRUE)
               /\ w["delimiter"] = JsonStr("comma")
               /\ w["dateFormat"] = JsonStr("iso")

\* The five columns with the defaults were encoded as in the specification's
\* example.
C23_Witness ==
    /\ Encoded
    /\ dto[1] = ExportMeterReadingsDto(AllColumns, None, None, None)
    /\ wire[1] =
           [columns |-> JsonList(<<JsonStr("date"), JsonStr("value"), JsonStr("note"),
                                   JsonStr("meter_id"), JsonStr("meter_number")>>),
            includeHeader |-> JsonBoolOf(TRUE),
            delimiter |-> JsonStr("comma"),
            dateFormat |-> JsonStr("iso")]

Decoded(cls) == decoded # None /\ decoded[1].cls = cls
IsNullOrMissing(data, key) == key \notin DOMAIN data \/ data[key] = JsonNull
\* A wire dict that carries its required keys, every timestamp well-formed.
WellFormedEntry(e) ==
    {"timestamp", "value"} \subseteq DOMAIN e /\ e["timestamp"].s \in WireTimestamps
WellFormed(cls, data) ==
    CASE cls = "DeviceSummaryDto" ->
             /\ {"id", "name", "folderPath"} \subseteq DOMAIN data
             /\ (~IsNullOrMissing(data, "lastUpdatedAt")
                     => data["lastUpdatedAt"].s \in WireTimestamps)
      [] cls = "EnvironmentRecordDto" ->
             /\ {"id", "title"} \subseteq DOMAIN data
             /\ (~IsNullOrMissing(data, "entries") =>
                     \A i \in 1..Len(data["entries"].items) :
                         WellFormedEntry(data["entries"].items[i]))
      [] cls = "MeterReadingDto" -> MeterReadingKeys \subseteq DOMAIN data

\* C24: decoding a wire dict that carries its required fields never fails on
\* an optional field that is absent.  A device whose lastUpdatedAt is null or
\* missing decodes with last_updated_at None; an environment record whose
\* entries key is missing decodes with no entries, and one that carries
\* entries decodes them one for one in wire order; a unit, note or meterNumber
\* that is missing decodes to None.
C24_AbsentOptionalsDecode ==
    \A cls \in {"DeviceSummaryDto", "EnvironmentRecordDto", "MeterReadingDto"} :
        Decoded(cls) =>
            LET data == decoded[1].data
                got  == decoded[1].dto
            IN  /\ (WellFormed(cls, data)
                       /\ ("entries" \in DOMAIN data => data["entries"] # JsonNull))
                       => got.kind = "return"
                /\ (cls = "DeviceSummaryDto" /\ WellFormed(cls, data)
                       /\ IsNullOrMissing(data, "lastUpdatedAt"))
                       => got.value.last_updated_at = None
                /\ (cls = "EnvironmentRecordDto" /\ got.kind = "return") =>
                       /\ ("entries" \notin DOMAIN data => got.value.entries = <<>>)
                       /\ ("entries" \in DOMAIN data =>
                              /\ Len(got.value.entries) = Len(data["entries"].items)
                              /\ \A i \in 1..Len(got.value.entries) :
                                     /\ got.value.entries[i].value
                                            = data["entries"].items[i]["value"].x
                                     /\ got.value.entries[i].timestamp
                                            = fromisoformat(data["entries"].items[i]["timestamp"].s))
                       /\ ("unit" \notin DOMAIN data => got.value.unit = None)
                /\ (cls = "MeterReadingDto" /\ got.kind = "return") =>
                       /\ ("note" \notin DOMAIN data => got.value.note = None)
                       /\ ("meterNumber" \notin DOMAIN data => got.value.meter_number = None)

\* An environment record without the unit and entries keys was decoded.
C24_Witness ==
    /\ Decoded("EnvironmentRecordDto")
    /\ DOMAIN decoded[1].data = {"id", "title"}
    /\ decoded[1].dto.kind = "return"
    /\ decoded[1].dto.value.entries = <<>>
    /\ decoded[1].dto.value.unit = None

(***************************************************************************)
(* Properties of the resource operations, checked under SpecOps.            *)
(***************************************************************************)
OpDone == op # NoOp /\ Done(1)

\* C14: whatever _make_request raised leaves the resource operation
\* unchanged (same kind, message, api_message and retry_after), and a
\* "no result" operation (MeterReadings create/delete, Environments
\* delete/create_entry/delete_entry) returns None exactly when _make_request
\* raised nothing.
C14_ErrorsPropagateUnchanged ==
    OpDone =>
        /\ (outcome[1].kind # "return" => opOutcome = outcome[1])
        /\ (op.fn \in NoResultFns =>
               (opOutcome = Return(JsonNull) <=> outcome[1].kind = "return"))

\* A create that met a 429 with Retry-After: 7 raised the RateLimitError of
\* _make_request, retry hint included.
C14_Witness ==
    /\ OpDone /\ op.fn = "MeterReadingResource.create"
    /\ result[1].t = "response" /\ result[1].status = 429
    /\ opOutcome.kind = "RateLimitError"
    /\ opOutcome.retry_after = Some(7)
    /\ opOutcome.api_message = <<"Invalid token">>
    /\ opOutcome = outcome[1]

\* The shape of body an operation expects, and the shape a body has: a body
\* that is no JSON is the bytes of an export.
ExpectedShape(fn) ==
    IF fn \in ModelFns THEN "dict" ELSE IF fn \in ListFns THEN "list" ELSE "bytes"
ShapeOf(body) == IF body = Unparseable THEN "bytes" ELSE body.t

\* C15: an operation that expects a body (object, sequence or bytes) and gets
\* a success response whose body has another shape fails with the generic
\* EnergyTrackerAPIError.
C15_WrongShapeFailsGenerically ==
    (OpDone /\ op.fn \notin NoResultFns /\ result[1].t = "response"
         /\ result[1].status \in 200..399
         /\ ShapeOf(result[1].body) # ExpectedShape(op.fn))
        => opOutcome.kind = BaseKind

KeysOf(params) == IF params = None THEN {} ELSE DOMAIN params[1]

\* C16: the query parameters sent are exactly those whose argument was
\* supplied: name, folderPath, updatedAfter, updatedBefore of the device
\* lists and meterId, from, to of MeterReadings list/export each appear iff
\* the argument is not None; sort appears iff it is not the descending
\* default; allowRounding appears iff it was given, as "true" or "false";
\* an operation with no parameter to send passes no query at all.
C16_QueryParameters ==
    op # NoOp =>
        LET sent == KeysOf(request.params)
        IN  /\ (request.params # None => sent # {})
            /\ (op.fn \in DeviceListFns =>
                   sent = Present(op.name, "name") \cup Present(op.folder_path, "folderPath")
                            \cup Present(op.updated_after, "updatedAfter")
                            \cup Present(op.updated_before, "updatedBefore"))
            /\ (op.fn \in ReadingQueryFns =>
                   /\ sent = Present(op.meter_id, "meterId")
                              \cup Present(op.from_timestamp, "from")
                              \cup Present(op.to_timestamp, "to")
                              \cup (IF op.sort = "asc" THEN {"sort"} ELSE {})
                   /\ ("sort" \in sent => request.params[1]["sort"] = "asc"))
            /\ (op.fn = "MeterReadingResource.create" =>
                   /\ sent = Present(op.allow_rounding, "allowRounding")
                   /\ (op.allow_rounding = Some(TRUE) =>
                          request.params[1]["allowRounding"] = "true")
                   /\ (op.allow_rounding = Some(FALSE) =>
                          request.params[1]["allowRounding"] = "false"))
            /\ (op.fn \notin DeviceListFns \cup ReadingQueryFns
                                 \cup {"MeterReadingResource.create"} => sent = {})

\* A create called with allow_rounding=False sent allowRounding=false.
C16_Witness ==
    /\ op # NoOp /\ op.fn = "MeterReadingResource.create"
    /\ op.allow_rounding = Some(FALSE)
    /\ request.params = Some("allowRounding" :> "false")

\* The wire text of an instant in UTC with three fractional digits.  A naive
\* datetime has no offset to convert from: its own fields are kept.
UtcMillisecondTexts(ts) ==
    LET minutes == ts.hour * 60 + ts.minute
                       - (IF ts.utcoffset = None THEN 0 ELSE ts.utcoffset[1])
        text == "2024-01-15T" \o Pad2(minutes \div 60) \o ":" \o Pad2(minutes % 60)
                    \o ":" \o Pad2(ts.second) \o "." \o Pad3(ts.microsecond \div 1000)
    IN  IF ts.utcoffset = None THEN {text, text \o "Z", text \o "+00:00"}
        ELSE {text \o "Z", text \o "+00:00"}

\* C19: every instant an operation sends, in a request body (create, delete,
\* create_entry, delete_entry) or as a date query filter, is written in UTC
\* with exactly three fractional-second digits: an instant given with another
\* offset is converted to UTC and sub-millisecond digits are dropped.
C19_InstantsInUtcMilliseconds ==
    op # NoOp =>
        /\ \A f \in {"updated_after", "updated_before", "from_timestamp",
                     "to_timestamp"} :
               (f \in DOMAIN op /\ op[f] # None) =>
                   LET key == CASE f = "updated_after"  -> "updatedAfter"
                                [] f = "updated_before" -> "updatedBefore"
                                [] f = "from_timestamp" -> "from"
                                [] f = "to_timestamp"   -> "to"
                   IN  request.params[1][key] \in UtcMillisecondTexts(op[f][1])
        /\ ("timestamp" \in DOMAIN op =>
               request.json[1]["timestamp"].s \in UtcMillisecondTexts(op.timestamp))
        /\ (("meter_reading" \in DOMAIN op /\ op.meter_reading.timestamp # None) =>
               request.json[1]["timestamp"].s
                   \in UtcMillisecondTexts(op.meter_reading.timestamp[1]))
        /\ (("entry" \in DOMAIN op /\ op.entry.timestamp # None) =>
               request.json[1]["timestamp"].s
                   \in UtcMillisecondTexts(op.entry.timestamp[1]))

\* The method and path of each operation's template, and the operations whose
\* template defines a body.
TemplateOf(o) ==
    LET standard == "/v1/devices/standard"
        readings == "/v3/devices/standard/" \o o.device_id \o "/meter-readings"
        environments == standard \o "/" \o o.device_id \o "/environments"
        environment  == environments \o "/" \o o.environment_id
    IN  CASE o.fn = "DeviceResource.list_standard"     -> <<"GET", standard>>
          [] o.fn = "DeviceResource.list_virtual"      -> <<"GET", "/v1/devices/virtual">>
          [] o.fn = "MeterReadingResource.create"      -> <<"POST", readings>>
          [] o.fn = "MeterReadingResource.list"        -> <<"GET", readings>>
          [] o.fn = "MeterReadingResource.delete"      -> <<"DELETE", readings>>
          [] o.fn = "MeterReadingResource.export"      -> <<"POST", readings \o "/export">>
          [] o.fn = "EnvironmentResource.list"         -> <<"GET", environments>>
          [] o.fn = "EnvironmentResource.create"       -> <<"POST", environments>>
          [] o.fn = "EnvironmentResource.get"          -> <<"GET", environment>>
          [] o.fn = "EnvironmentResource.delete"       -> <<"DELETE", environment>>
          [] o.fn = "EnvironmentResource.create_entry" -> <<"POST", environment>>
          [] o.fn = "EnvironmentResource.delete_entry" -> <<"DELETE", environment \o "/entries">>
DeleteByTimestampFns == {"MeterReadingResource.delete", "EnvironmentResource.delete_entry"}
BodyFns ==
    DeleteByTimestampFns \cup
        {"MeterReadingResource.create", "MeterReadingResource.export",
         "EnvironmentResource.create", "EnvironmentResource.create_entry"}

\* C22: every operation issues the method and the path of its template with
\* the identifiers it was given substituted, on its one exchange; it sends a
\* body exactly when its template defines one; the body of the two
\* delete-by-timestamp operations has the one key timestamp.
C22_MethodPathBody ==
    op # NoOp =>
        /\ <<request.method, request.endpoint>> = TemplateOf(op)
        /\ (request.json # None <=> op.fn \in BodyFns)
        /\ (op.fn \in DeleteByTimestampFns => DOMAIN request.json[1] = {"timestamp"})
        /\ call[1].exchanges = 1

\* Environments.delete_entry was called and sent DELETE with a timestamp body
\* to the entries path of its environment.
C22_Witness ==
    /\ op # NoOp /\ op.fn = "EnvironmentResource.delete_entry"
    /\ request.method = "DELETE"
    /\ request.endpoint = "/v1/devices/standard/device-123/environments/env-1/entries"
    /\ request.json = Some("timestamp" :> JsonStr("2024-01-15T10:30:45.123"))
    /\ request.params = None

Cancelled == op # NoOp /\ pc[1] = "cancelled"

\* C30: an operation cancelled while its exchange is in flight does not
\* complete.  What leaves _make_request and the operation is the
\* CancelledError itself: no NetworkError, TimeoutError or other taxonomy
\* error, no return and no value; no response was classified for the call;
\* and the one exchange it had sent is all it sent.
C30_CancellationNotClassified ==
    Cancelled =>
        /\ outcome[1].kind = "CancelledError"
        /\ outcome[1].kind \notin TaxonomyKinds \cup {"return"}
        /\ outcome[1].value = NoValue
        /\ opOutcome = outcome[1]
        /\ result[1].t # "response"
        /\ ~Done(1)
        /\ call[1].exchanges = 1

\* MeterReadings.create was cancelled in flight and raised CancelledError.
C30_Witness ==
    /\ Cancelled /\ op.fn = "MeterReadingResource.create"
    /\ request.method = "POST"
    /\ opOutcome.kind = "CancelledError"

(***************************************************************************)
(* Properties of construction, checked under SpecConstruct.                 *)
(***************************************************************************)
Constructed == resources # {}

\* C21: whatever base_url was given, the stored base address has no leading
\* and no trailing whitespace and does not end with a slash, and normalizing
\* it again changes nothing; "  https://api.example.com/  " is stored as
\* "https://api.example.com".
C21_BaseUrlNormalized ==
    Constructed =>
        /\ (_base_url # <<>> =>
               /\ Head(_base_url) \notin Whitespace
               /\ _base_url[Len(_base_url)] \notin Whitespace \cup {"/"})
        /\ StoredBaseUrl(Some(_base_url)) \in {_base_url, _DEFAULT_BASE_URL}
        /\ (base_url = Some(MessyUrl) =>
               _base_url = <<"https:", "/", "/", "api.example.com">>)

\* C25: a constructed client has the three resource groups devices,
\* meter_readings and environments bound to it.
C25_AllResourceGroupsBound ==
    Constructed => {"devices", "meter_readings", "environments"} \subseteq resources

=============================================================================
